---- MODULE Spec2Model ----
(***************************************************************************)
(* Trade-trigger and execution engine of the market maker:                 *)
(*   - the two trigger feeds of AutoBuyService / SellService               *)
(*     (start_mempool_mode, detect_sell_tx / detect_buy_tx) and their      *)
(*     shared tx_hashes_cache,                                             *)
(*   - the allocation pass process_trigger_buy / process_trigger_sell,     *)
(*   - the executors AutoBuyService::try_buy, SellService::sell and        *)
(*     BuyService::try_buy (driven by handle_buy_one),                     *)
(*   - HttpProviders::fetch_periodically / get_provider.                   *)
(***************************************************************************)
EXTENDS Integers, Sequences, FiniteSets, Bags, TLC

(* ------------------------------ bounds -------------------------------- *)
NumWallets == 2
NumHashes == 2
MaxBal == 2
MaxValue == 2
MaxDeliveries == 2
MaxNonce == 1
MaxRuns == 1
MaxPoolRuns == 2
NumProviders == 3
MaxCalls == 2
SurplusBalance == 1
MinPercent == 99
MaxPercent == 100
MaxQuote == 2
MaxAmountOut == 20
NumAddrs == 3
NumFees == 2
MaxPathLen == 3
AddressBytes == 20
FeeBytes == 3
MaxAmount == 2
MaxGasPrice == 2
NumPhrases == 3
VolumeThreshold == 2
NumWsProviders == 2
MaxWsDeliveries == 2
V3_SWAP_EXACT_IN == 0
V3_SWAP_EXACT_OUT == 1
V2_SWAP_EXACT_IN == 8
V2_SWAP_EXACT_OUT == 9
OtherCommand == 10
NumFeeTiers == 3
SlippageScale == 100000

Wallets == 1..NumWallets
Hashes == 1..NumHashes
Feeds == {"mempool", "event"}
Services == {"autobuy", "sell", "buyer"}
NoWallet == 0

VARIABLES
    service,
    wallets,
    lock,
    feed,
    delivered,
    cache,
    cacheLock,
    expired,
    triggers,
    pending,
    exec,
    runs,
    exit,
    joined,
    discarded,
    skipped,
    provider_index,
    fp,
    got,
    router,
    calc,
    codec,
    gas,
    keys,
    obs,
    wss,
    sup

vars == <<service, wallets, lock, feed, delivered, cache, cacheLock, expired,
          triggers, pending, exec, runs, exit, joined, discarded, skipped,
          provider_index, fp, got, router, calc, codec, gas, keys,
          obs,
          wss,
          sup>>

\* State of the components checked on their own.
auxVars == <<calc, codec, gas, keys, obs, wss, sup>>

engineVars == <<service, wallets, lock, feed, delivered, cache, cacheLock,
                expired, triggers, pending, exec, runs, joined, discarded,
                skipped>>

(* ------------------------------ helpers ------------------------------- *)
RECURSIVE SumOver(_, _)
SumOver(f, S) ==
    IF S = {} THEN 0
    ELSE LET x == CHOOSE y \in S : TRUE
         IN f[x] + SumOver(f, S \ {x})

EmptyFn == [x \in {} |-> 0]

WalletContext(n, t, e) == [nonce |-> n, token_balance |-> t, eth_balance |-> e]

\* The feed that owns a wallet pool is the service instance the feed runs in:
\* each feed task of auto_buy_bot / sell_bot builds its own service and calls
\* init(), hence compute_system_wallets, for itself.
PoolOf(f) == f

\* Usable balance the allocation pass commits from a wallet.
Usable(svc, wc) ==
    IF svc = "sell"
    THEN wc.token_balance
    ELSE IF wc.eth_balance <= SurplusBalance
         THEN 0
         ELSE wc.eth_balance - SurplusBalance

\* total_buy_amount / total_sell_amount of a trigger.
TotalAmount(value, percent) == (value * percent) \div 100

IdleFeed ==
    [pc |-> "loop", hash |-> 0, value |-> 0, required |-> 0, total |-> 0,
     todo |-> {}, seen |-> EmptyFn, busy |-> {}, configs |-> EmptyFn,
     chosen |-> {}, resid |-> NoWallet,
     notified |-> FALSE, dispatched |-> FALSE, why |-> "none"]

IdleExec ==
    [pc |-> "idle", amt |-> 0, kind |-> "none", pre |-> WalletContext(0, 0, 0),
     fetched |-> WalletContext(0, 0, 0), outcome |-> "none", rel |-> 0]

Job(w, amt, kind) == [w |-> w, amt |-> amt, kind |-> kind]

\* Endpoints of a network's rpc_url list, by position.
Providers == 0..(NumProviders - 1)
NoEndpoint == -1

\* fetch_periodically before its loop: `exit` wired, nothing probed yet.
IdleProbe ==
    [pc |-> "off", i |-> 0, wired |-> TRUE, responded |-> NoEndpoint,
     answered |-> FALSE, failed |-> {}, exhausted |-> FALSE]

\* Venues, pool addresses and fee tiers.  The pool of fee tier t, where the
\* factory knows one, has address t; the constant-product pair has its own.
ZERO_ADDRESS == 0
FeeTiers == 1..NumFeeTiers
NoFeeTier == 0
V2Pair == NumFeeTiers + 1
Venues == {"v2", "v3"}

\* quote_exact_input_single: the call reverted / the amount out it returned.
QuoteReverted == -1
AmountsOut == {QuoteReverted} \cup (0..MaxQuote)

\* total_slippage in thousandths of a percent: none, one half.
Slippages == {0, SlippageScale \div 2}

NoTx == [pool |-> ZERO_ADDRESS, apply |-> FALSE, amount_out_minimum |-> 0]

\* A router service before any call: what the factories and the quoter hold
\* (pool, pair, quoted) and the results of the calls made (resolved, tx).
IdleRouter ==
    [pc |-> "start", venue |-> "v2",
     pool |-> [t \in FeeTiers |-> ZERO_ADDRESS], pair |-> ZERO_ADDRESS,
     quoted |-> [t \in FeeTiers |-> 0],
     resolved |-> ZERO_ADDRESS, tx |-> NoTx]

\* A slippage computation before it ran: the venue's amount out, the total
\* slippage in thousandths of a percent, and the minimum computed from them.
IdleCalc ==
    [pc |-> "start", venue |-> "v2", amount_out |-> 0, slippage |-> 0, min |-> 0]

\* Token addresses and pool fees of a swap path, and their bytes: address a
\* is 20 bytes and fee f 3 bytes, every byte of an address different from
\* every other byte of any address or fee.
Addrs == 1..NumAddrs
Fees == 1..NumFees
AddrOf(a) == [i \in 1..AddressBytes |-> a * AddressBytes + i]
FeeOf(f) == [i \in 1..FeeBytes |-> 200 + f * FeeBytes + i]

\* Paths of one to MaxPathLen tokens with a fee between neighbours.
PathsOf(n) == [1..n -> Addrs]
FeesOf(n) == [1..(n - 1) -> Fees]

\* Commands of the universal router that the decoder knows, and one it does
\* not.
SwapCommands ==
    {V2_SWAP_EXACT_IN, V2_SWAP_EXACT_OUT, V3_SWAP_EXACT_IN, V3_SWAP_EXACT_OUT}
ExactIn == {V2_SWAP_EXACT_IN, V3_SWAP_EXACT_IN}

SwapUniversalRouterInfo(amount_in, amount_out, path) ==
    [amount_in |-> amount_in, amount_out |-> amount_out, path |-> path]

\* A path decoder before it ran: the tokens and fees packed into the input,
\* the direction flag, and the addresses it returned.
IdleCodec ==
    [pc |-> "start", path |-> <<1>>, fees |-> <<>>, is_reverse |-> FALSE,
     out |-> <<>>,
     command |-> OtherCommand, amount |-> 0, limit |-> 0,
     info |-> SwapUniversalRouterInfo(0, 0, <<>>),
     classic |-> SwapUniversalRouterInfo(0, 0, <<>>)]

\* The gas price oracle before it is spawned: the shared cell `gas_price`,
\* the endpoint of the current fetch, the value and the outcome of the last
\* fetch, the outcomes seen so far, and why the task ended.
GasPrices == 0..MaxGasPrice
IdleGas ==
    [pc |-> "off", gas_price |-> 0, endpoint |-> NoEndpoint, fetched |-> 0,
     last |-> "none", seen |-> {}, why |-> "none"]

\* Key material: the mnemonic settings of the environment, the phrases they
\* may hold, and a wallet derivation before it ran (the service, the
\* WalletContext index, the address stored in WalletContext and the address
\* of the signer load_wallet returned).
MnemonicSettings == {"AUTO_BUYER_MNEMONIC", "BUYER_MNEMONIC", "SELLER_MNEMONIC"}
Phrases == 1..NumPhrases
NoAddress == 0
IdleKeys ==
    [pc |-> "start", svc |-> "autobuy", index |-> 0,
     env |-> [m \in MnemonicSettings |-> 1],
     address |-> NoAddress, signer |-> NoAddress]

\* The tracked token and WETH among the addresses, the three encodings of a
\* swap AutoBuyService recognises, and the observation of one pending swap
\* before it ran: its encoding, command, token path, the amount in its
\* calldata, the WETH the venue quotes for that amount, and what the loop
\* body computed (sell_token_amount, transaction_value).
TOKEN == 1
WETH == 2

\* The tasks a supervisor puts in its JoinSet.  buy_bot: the BuyService task,
\* GasPrice::fetch_periodically and HttpProviders::fetch_periodically;
\* MarketMakerService::market_make: HttpProviders::fetch_periodically and one
\* market_make_by_config task per group.
SupNames == {"service", "group1", "group2", "gas", "providers"}
SupWorkers(bot) == IF bot = "buy_bot" THEN {"service"} ELSE {"group1", "group2"}

IdleSup ==
    [pc |-> "off", bot |-> "buy_bot", st |-> [t \in SupNames |-> "absent"],
     joined |-> {}, exit |-> FALSE]

\* One spawned task per websocket provider; all share the sender of the
\* broadcast channel and one TimedCache behind a tokio Mutex.
WsTasks == 1..NumWsProviders

IdleWs ==
    [pc |-> [t \in WsTasks |-> "off"], event |-> [t \in WsTasks |-> 0],
     n |-> [t \in WsTasks |-> 0], handled |-> [t \in WsTasks |-> {}],
     lock |-> 0, cache |-> {}, sent |-> [h \in Hashes |-> 0],
     receiver |-> TRUE]

IdleObs ==
    [pc |-> "start", encoding |-> "classic", command |-> OtherCommand,
     path |-> <<TOKEN, WETH>>, amount |-> 0, quote |-> 0,
     sell_token_amount |-> 0, transaction_value |-> 0]

InitWalletSets(svc) ==
    IF svc = "sell"
    THEN [Wallets -> {WalletContext(0, t, MaxBal) : t \in 0..MaxBal}]
    ELSE [Wallets -> {WalletContext(0, 0, SurplusBalance + u) : u \in 0..MaxBal}]

(* ------------------------------- Init --------------------------------- *)
\* State after construction: every service instance has bulk-loaded its own
\* wallet map (compute_system_wallets), so both pools hold the same chain
\* state; BuyService has spawned one handle_buy_one task per wallet.
Init ==
    /\ service \in Services
    /\ \E ws \in InitWalletSets(service) : wallets = [p \in Feeds |-> ws]
    /\ lock = [p \in Feeds |-> [w \in Wallets |-> "free"]]
    /\ feed = [f \in Feeds |->
                 IF service = "buyer" THEN [IdleFeed EXCEPT !.pc = "off"]
                 ELSE IdleFeed]
    /\ delivered = [f \in Feeds |-> {}]
    /\ cache = {}
    /\ cacheLock = "free"
    /\ expired = {}
    /\ triggers = [h \in Hashes |-> {}]
    /\ pending = [p \in Feeds |->
                    IF service = "buyer" /\ p = "event"
                    THEN SetToBag({Job(w, 0, "buyer") : w \in Wallets})
                    ELSE EmptyBag]
    /\ exec = [p \in Feeds |-> [w \in Wallets |-> IdleExec]]
    /\ runs = MaxRuns
    /\ exit = FALSE
    /\ joined = {}
    /\ discarded = {}
    /\ skipped = {}
    /\ provider_index = 0
    /\ fp = IdleProbe
    /\ got = [endpoint |-> NoEndpoint, calls |-> 0]
    /\ router = IdleRouter
    /\ calc = IdleCalc
    /\ codec = IdleCodec
    /\ gas = IdleGas
    /\ obs = IdleObs
    /\ wss = IdleWs
    /\ sup = IdleSup
    /\ keys = IdleKeys

Deliveries == Cardinality(delivered["mempool"]) + Cardinality(delivered["event"])

(* ---------------------- trigger feeds: mempool ------------------------ *)
\* Top of either feed loop: the exit flag is polled and the loop returns Err.
FeedExit(f) ==
    /\ feed[f].pc = "loop"
    /\ exit
    /\ feed' = [feed EXCEPT ![f].pc = "failed", ![f].why = "exit"]
    /\ UNCHANGED <<runs, service, wallets, lock, delivered, cache, cacheLock, expired,
                   triggers, pending, exec, exit, joined, discarded, skipped,
                   provider_index, fp, got, router, auxVars>>

\* The cache guard of the confirmed-log feed lives until its loop body ends.
ReleaseCache(f, cl) == IF f = "event" /\ cl = "event" THEN "free" ELSE cl

\* Entry of process_trigger_buy / process_trigger_sell: the launch
\* notification, the quote of the observed value (sell side only) and the
\* random percentage; the result is the feed's state when the wallet loop
\* starts, or the way the call ended before it.
\*   notifyOk = FALSE: send_message panics on the unwrapped Telegram error
\*   quote < 0:        get_amount_out returned Err
TriggerEntry(svc, h, v, notifyOk, quote, percent) ==
    LET amountIn == IF svc = "sell" THEN quote ELSE v
        required == TotalAmount(amountIn, percent)
    IN  IF ~notifyOk
        THEN [IdleFeed EXCEPT !.pc = "panicked", !.hash = h]
        ELSE IF svc = "sell" /\ quote < 0
        THEN [IdleFeed EXCEPT !.pc = "failed", !.hash = h, !.why = "quote"]
        ELSE [IdleFeed EXCEPT !.pc = "alloc", !.hash = h, !.required = required,
                              !.total = required, !.todo = Wallets]

\* Faulty variant: no value is below the threshold.
ThresholdIgnored(svc, v) == FALSE

\* `transaction_value < self.auto_sell_volume_threshold` of SellService;
\* AutoBuyService has no threshold.
BelowThreshold(svc, v) == svc = "sell" /\ v < VolumeThreshold

\* Top of the start_mempool_mode loop with the flag clear: the feed goes on to
\* `stream_mempool.next().await`, which has no timeout around it.
MempoolWait ==
    /\ feed["mempool"].pc = "loop"
    /\ ~exit
    /\ feed' = [feed EXCEPT !["mempool"].pc = "recv"]
    /\ UNCHANGED <<runs, service, wallets, lock, delivered, cache, cacheLock, expired,
                   triggers, pending, exec, exit, joined, discarded, skipped,
                   provider_index, fp, got, router, auxVars>>

\* One iteration of start_mempool_mode up to the wallet loop of
\* process_trigger_*.  The pending transaction is decoded and priced:
\* outcome "skip" is every `continue` (selector/router mismatch, other token,
\* value under the threshold, price above the floor), "err" every `?` on
\* decoding or fetching, "quote_err" the `?` on get_pair_address_by_router,
\* get_amount_out and get_token_native_price.  A match is inserted into tx_hashes_cache
\* (lock, cache_set, drop) without a lookup and handed to process_trigger_*.
\* The item is taken from the stream whatever the exit flag holds by then.
\* `tracked` is whether the decoded hop sells (buys) the tracked token: when
\* it does not the iteration ends in a `continue`, unless decoding failed
\* first.  SellService compares the value with its threshold after the pair
\* and price lookups and before the insert.  `discarded` remembers the
\* transactions that did not match or were below the threshold.
\* Until the insert nothing the iteration does is visible to another task,
\* so the iteration is taken when the cache mutex is free.
MempoolHandle(h, v, tracked, outcome, notifyOk, quote, percent) ==
    /\ feed["mempool"].pc = "recv"
    /\ ~tracked => outcome \in {"skip", "err"}
    /\ BelowThreshold(service, v) => outcome \in {"skip", "err", "quote_err"}
    /\ discarded' = IF ~tracked \/ (service = "sell" /\ v < VolumeThreshold)
                    THEN discarded \cup {h} ELSE discarded
    /\ h \notin delivered["mempool"]
    /\ \A g \in Hashes : g < h => g \in delivered["mempool"]
    /\ Deliveries < MaxDeliveries
    /\ delivered' = [delivered EXCEPT !["mempool"] = @ \cup {h}]
    /\ CASE outcome = "skip" ->
              /\ feed' = [feed EXCEPT !["mempool"].pc = "loop"]
              /\ UNCHANGED <<cache, triggers>>
         [] outcome \in {"err", "quote_err"} ->
              /\ feed' = [feed EXCEPT !["mempool"].pc = "failed",
                                      !["mempool"].why =
                                          IF outcome = "err" THEN "other" ELSE "quote"]
              /\ UNCHANGED <<cache, triggers>>
         [] OTHER ->
              /\ cacheLock = "free"
              /\ cache' = cache \cup {h}
              /\ triggers' = [triggers EXCEPT ![h] = @ \cup {"mempool"}]
              /\ feed' = [feed EXCEPT !["mempool"] =
                            TriggerEntry(service, h, v, notifyOk, quote, percent)]
    /\ UNCHANGED <<runs, service, wallets, lock, cacheLock, expired, pending, exec,
                   exit, joined, skipped, provider_index, fp, got, router, auxVars>>

(* ------------------- trigger feeds: confirmed logs -------------------- *)
\* Faulty variant: the lookup never finds an entry.
CacheGetAbsent(c, h, lapsed) == FALSE

\* cache_get of the TimedCache: an entry past its lifespan is evicted and
\* reported absent.
CacheGet(c, h, lapsed) == h \in c /\ ~lapsed

\* detect_sell_tx / detect_buy_tx: a log arrives within the 100 ms poll, the
\* feed sleeps one second, locks the cache and looks the hash up.  On a hit
\* the guard is dropped and the event skipped; on a miss the guard stays alive
\* for the rest of the loop body.  The feed never inserts.  `skipped`
\* remembers the hashes skipped on a hit.
EventHandle(h, v, lapsed) ==
    /\ feed["event"].pc = "loop"
    /\ ~exit
    /\ h \notin delivered["event"]
    /\ Deliveries < MaxDeliveries
    /\ cacheLock = "free"
    /\ lapsed => h \in cache
    /\ delivered' = [delivered EXCEPT !["event"] = @ \cup {h}]
    /\ cache' = IF lapsed THEN cache \ {h} ELSE cache
    /\ expired' = IF lapsed THEN expired \cup {h} ELSE expired
    /\ IF CacheGet(cache, h, lapsed)
       THEN UNCHANGED <<feed, cacheLock>>
       ELSE /\ feed' = [feed EXCEPT !["event"] =
                         [IdleFeed EXCEPT !.pc = "fetch", !.hash = h, !.value = v]]
            /\ cacheLock' = "event"
    /\ skipped' = IF CacheGet(cache, h, lapsed) THEN skipped \cup {h} ELSE skipped
    /\ UNCHANGED <<runs, service, wallets, lock, triggers, pending, exec, exit,
                   joined, discarded, provider_index, fp, got, router, auxVars>>

\* parse_log, get_transaction(_receipt), get_token_native_price, the floor
\* price / volume threshold ("skip" is a `continue`, "err" the `?` on the
\* fetch, "quote_err" the `?` on get_token_native_price), then
\* process_trigger_* up to its wallet loop.  When the loop body ends here the
\* cache guard is dropped.
EventTrigger(outcome, notifyOk, quote, percent) ==
    /\ feed["event"].pc = "fetch"
    /\ BelowThreshold(service, feed["event"].value) =>
          outcome \in {"skip", "err", "quote_err"}
    /\ CASE outcome = "skip" ->
              /\ feed' = [feed EXCEPT !["event"] = IdleFeed]
              /\ UNCHANGED triggers
         [] outcome \in {"err", "quote_err"} ->
              /\ feed' = [feed EXCEPT !["event"] =
                            [IdleFeed EXCEPT !.pc = "failed",
                                             !.why = IF outcome = "err"
                                                     THEN "other" ELSE "quote"]]
              /\ UNCHANGED triggers
         [] OTHER ->
              /\ triggers' = [triggers EXCEPT ![feed["event"].hash] = @ \cup {"event"}]
              /\ feed' = [feed EXCEPT !["event"] =
                            TriggerEntry(service, feed["event"].hash,
                                         feed["event"].value, notifyOk, quote, percent)]
    /\ cacheLock' = IF feed'["event"].pc = "alloc" THEN cacheLock ELSE "free"
    /\ UNCHANGED <<runs, service, wallets, lock, delivered, cache, expired, pending,
                   exec, exit, joined, discarded, skipped,
                   provider_index, fp, got, router, auxVars>>

(* ------------- allocation: process_trigger_buy / _sell ---------------- *)
\* One iteration of `for wallet in system_wallets.values()`: try_write, the
\* balance tests, and the guard dropped when the iteration ends.  `free` is
\* whether try_write succeeded.
AllocStep(svc, st, w, wc, free) ==
    LET st1 == [st EXCEPT !.todo = @ \ {w}]
        u == Usable(svc, wc)
    IN  IF ~free
        THEN [st1 EXCEPT !.busy = @ \cup {w}]
        ELSE IF u = 0
        THEN [st1 EXCEPT !.seen = (w :> 0) @@ @]
        ELSE IF u <= st.total
        THEN [st1 EXCEPT !.seen = (w :> u) @@ @,
                         !.configs = (w :> u) @@ @,
                         !.total = @ - u]
        ELSE [st1 EXCEPT !.seen = (w :> u) @@ @,
                         !.chosen = @ \cup {w}]

\* try_write never waits: a wallet whose lock is held is skipped.
TryWrite(l) == l = "free"

\* `system_wallets.values()`: the map is never modified after init, so every
\* pass walks it in the same order; wallets are numbered in that order.
NextWallet(todo) == CHOOSE w \in todo : \A x \in todo : w <= x

\* Faulty variant: the pass waits for the wallet (write().await in place of
\* try_write).
AllocVisitBlocking(f, w) ==
    /\ feed[f].pc = "alloc"
    /\ feed[f].total > 0
    /\ feed[f].todo # {}
    /\ w = NextWallet(feed[f].todo)
    /\ lock[PoolOf(f)][w] = "free"
    /\ feed' = [feed EXCEPT ![f] =
                  AllocStep(service, @, w, wallets[PoolOf(f)][w], TRUE)]
    /\ UNCHANGED <<runs, service, wallets, lock, delivered, cache, cacheLock, expired,
                   triggers, pending, exec, exit, joined, discarded, skipped,
                   provider_index, fp, got, router, auxVars>>

AllocVisit(f, w) ==
    /\ feed[f].pc = "alloc"
    /\ feed[f].total > 0
    /\ feed[f].todo # {}
    /\ w = NextWallet(feed[f].todo)
    /\ feed' = [feed EXCEPT ![f] =
                  AllocStep(service, @, w, wallets[PoolOf(f)][w],
                            TryWrite(lock[PoolOf(f)][w]))]
    /\ UNCHANGED <<runs, service, wallets, lock, delivered, cache, cacheLock, expired,
                   triggers, pending, exec, exit, joined, discarded, skipped,
                   provider_index, fp, got, router, auxVars>>

\* The jobs of a finished pass, one spawned task each.
JobsOf(st) ==
    {Job(w, st.configs[w], IF w = st.resid THEN "residual" ELSE "commit")
        : w \in DOMAIN st.configs}

\* After the loop: the residual goes to one of the_chosen_ones picked at
\* random; with none left the shortfall is notified.  Then every
\* wallet_configs entry is spawned and the function returns.
\* Faulty variant: the residual is left unassigned.
AllocResidualDropped(st, pick) == st

AllocResidual(st, pick) ==
    IF st.total > 0 /\ pick # NoWallet
    THEN [st EXCEPT !.configs = (pick :> st.total) @@ @, !.resid = pick]
    ELSE st

AllocFinish(f, pick, notifyOk) ==
    /\ feed[f].pc = "alloc"
    /\ feed[f].total = 0 \/ feed[f].todo = {}
    /\ IF feed[f].chosen = {} THEN pick = NoWallet ELSE pick \in feed[f].chosen
    /\ LET st == AllocResidual(feed[f], pick)
           shortfall == st.total > 0 /\ pick = NoWallet
       IN  IF shortfall /\ ~notifyOk
           THEN /\ feed' = [feed EXCEPT ![f] = [st EXCEPT !.pc = "panicked"]]
                /\ pending' = pending
           ELSE /\ feed' = [feed EXCEPT ![f] =
                             [st EXCEPT !.pc = "spawned", !.notified = shortfall,
                                        !.dispatched = TRUE]]
                /\ pending' = [pending EXCEPT ![PoolOf(f)] = @ (+) SetToBag(JobsOf(st))]
    /\ cacheLock' = IF feed'[f].pc = "panicked" THEN ReleaseCache(f, cacheLock)
                    ELSE cacheLock
    /\ UNCHANGED <<runs, service, wallets, lock, delivered, cache, expired, triggers,
                   exec, exit, joined, discarded, skipped,
                   provider_index, fp, got, router, auxVars>>

\* process_trigger_* returned Ok(()): the loop body ends, its locals (and the
\* cache guard of the confirmed-log feed) are dropped, the loop starts over.
FeedContinue(f) ==
    /\ feed[f].pc = "spawned"
    /\ feed' = [feed EXCEPT ![f] = IdleFeed]
    /\ cacheLock' = ReleaseCache(f, cacheLock)
    /\ UNCHANGED <<runs, service, wallets, lock, delivered, cache, expired, triggers,
                   pending, exec, exit, joined, discarded, skipped,
                   provider_index, fp, got, router, auxVars>>

(* ---- executors: AutoBuyService::try_buy, SellService::sell, ---------- *)
(* ----            BuyService::try_buy under handle_buy_one    ---------- *)
\* Chain state a resync may read back.
FetchedStates == {WalletContext(MaxNonce, MaxBal, 0), WalletContext(0, 0, MaxBal)}

\* What handle_buy_one does with the result of BuyService::try_buy:
\* Ok(true) and a deserialization Err loop again, Ok(false) and any other
\* Err leave the loop.
LoopsAgain(outcome, deser) ==
    \/ outcome \in {"pair_err", "build_err", "confirmed", "reverted", "resynced"}
    \/ /\ deser
       /\ outcome \in {"price_err", "receipt_err", "resync_failed"}

\* The write guard is a local of the executor: every return and every
\* unwinding panic drops it.
\* Faulty variant: a panic leaves the lock held.
GuardLeakedOnPanic(outcome) ==
    outcome \notin {"underflow_panic", "confirmed_notify_panic", "reverted_notify_panic"}

GuardDropped(outcome) == TRUE

\* Return of an executor with `outcome`; wc is the WalletState it leaves.
ExecReturn(p, w, outcome, wc, fetched, deser) ==
    /\ wallets' = [wallets EXCEPT ![p][w] = wc]
    /\ exec' = [exec EXCEPT ![p][w] =
                  [@ EXCEPT !.pc = "returned",
                            !.outcome = outcome,
                            !.fetched = fetched,
                            !.rel = IF GuardDropped(outcome) THEN @ + 1 ELSE @]]
    /\ lock' = [lock EXCEPT ![p][w] = IF GuardDropped(outcome) THEN "free" ELSE @]
    /\ pending' = IF /\ exec[p][w].kind = "buyer"
                     /\ LoopsAgain(outcome, deser)
                  THEN [pending EXCEPT ![p] = @ (+) SetToBag({Job(w, 0, "buyer")})]
                  ELSE pending

\* The finished task is dropped with its locals.
ExecReap(p, w) ==
    /\ exec[p][w].pc = "returned"
    /\ exec' = [exec EXCEPT ![p][w] = IdleExec]
    /\ UNCHANGED <<runs, service, wallets, lock, feed, delivered, cache, cacheLock,
                   expired, triggers, pending, exit, joined, discarded, skipped,
                   provider_index, fp, got, router, auxVars>>

\* Claimed -> Quoted -> Submitted.  wallet_context.write().await of a spawned
\* job waits until the lock is free and holds it until the function returns;
\* then load_wallet, (BuyService: floor test, pair and price lookup),
\* construct_*_token_tx and send_raw_transaction.  Nothing these steps do is
\* visible outside the task but the held lock, so they are one step.
BuildOutcomes(kind, wc) ==
    IF kind = "buyer"
    THEN IF wc.eth_balance <= SurplusBalance
         THEN {"load_err", "below_floor"}
         ELSE {"load_err", "pair_err", "price_err", "build_err", "send_ok", "send_err"}
    ELSE {"load_err", "build_err", "send_ok", "send_err"}

\* Faulty variant: BuyService spends the reserve as well.
BuyAmountAll(job, wc) ==
    IF job.kind = "buyer" THEN wc.eth_balance ELSE job.amt

\* The amount an executor trades: the job's, or for BuyService everything
\* above the surplus floor.
BuyAmount(job, wc) ==
    IF job.kind = "buyer" THEN wc.eth_balance - SurplusBalance ELSE job.amt

\* Faulty variant: a failed build drops the other jobs of the pool as well.
RemainingNoneOnBuildErr(pend, job, r, deser) ==
    IF r = "build_err" THEN EmptyBag ELSE pend (-) SetToBag({job})

\* The jobs still to run once the executor of `job` returned before sending:
\* every job is a task of its own, so only `job` is gone; handle_buy_one
\* keeps its wallet's job when it loops again.
Remaining(pend, job, r, deser) ==
    IF job.kind = "buyer" /\ LoopsAgain(r, deser)
    THEN pend ELSE pend (-) SetToBag({job})

\* `runs` is the number of executors that may still reach
\* send_raw_transaction within the bound.
ExecStart(p, w, job, r, deser) ==
    /\ BagIn(job, pending[p])
    /\ job.w = w
    /\ lock[p][w] = "free"
    /\ exec[p][w].pc = "idle"
    /\ r \in {"send_ok", "send_err"} => runs > 0
    /\ runs' = IF r \in {"send_ok", "send_err"} THEN runs - 1 ELSE runs
    /\ r \in BuildOutcomes(job.kind, wallets[p][w])
    /\ deser => (job.kind = "buyer" /\ r = "price_err")
    /\ LET e == [IdleExec EXCEPT !.kind = job.kind, !.pre = wallets[p][w],
                                 !.outcome = "running"]
           taken == pending[p] (-) SetToBag({job})
       IN  IF r \in {"send_ok", "send_err"}
           THEN /\ exec' = [exec EXCEPT ![p][w] =
                             [e EXCEPT !.pc = IF r = "send_ok" THEN "submitted"
                                              ELSE "recovery",
                                       !.amt = BuyAmount(job, wallets[p][w])]]
                /\ lock' = [lock EXCEPT ![p][w] = "exec"]
                /\ pending' = [pending EXCEPT ![p] = taken]
           ELSE /\ exec' = [exec EXCEPT ![p][w] =
                             [e EXCEPT !.pc = "returned", !.amt = job.amt,
                                       !.outcome = r,
                                       !.rel = IF GuardDropped(r) THEN 1 ELSE 0]]
                /\ lock' = [lock EXCEPT ![p][w] =
                              IF GuardDropped(r) THEN "free" ELSE "exec"]
                /\ pending' = [pending EXCEPT ![p] = Remaining(pending[p], job, r, deser)]
    /\ UNCHANGED <<service, wallets, feed, delivered, cache, cacheLock, expired,
                   triggers, exit, joined, discarded, skipped,
                   provider_index, fp, got, router, auxVars>>

\* The balance an executor trades away.
Traded(svc, wc) == IF svc = "sell" THEN wc.token_balance ELSE wc.eth_balance

\* Receipt with status success: the optimistic balance update.
ApplyConfirmed(svc, wc, amt) ==
    IF svc = "sell"
    THEN [wc EXCEPT !.token_balance = @ - amt]
    ELSE [wc EXCEPT !.eth_balance = @ - amt]

\* Receipt with status failure: balances stay as they are.
ApplyReverted(svc, wc, amt) == wc

\* `wallet_context_mut.nonce += U256::one()` after the notification.
BumpNonce(wc) == [wc EXCEPT !.nonce = @ + 1]

\* The receipt wait of AutoBuyService (10 s) and BuyService (3 s) is under a
\* timeout; SellService awaits the pending transaction without one.
HasReceiptTimeout(svc) == svc # "sell"

\* What the executor leaves in WalletState when the receipt wait ends with
\* `r`: the `?` on a timeout or receipt error returns at once.
AfterReceipt(svc, wc, amt, r, notifyOk) ==
    CASE r \in {"timeout", "receipt_err"} -> wc
      [] r = "reverted" ->
            IF notifyOk THEN BumpNonce(ApplyReverted(svc, wc, amt))
            ELSE ApplyReverted(svc, wc, amt)
      [] r = "confirmed" ->
            IF Traded(svc, wc) < amt THEN wc
            ELSE IF notifyOk THEN BumpNonce(ApplyConfirmed(svc, wc, amt))
            ELSE ApplyConfirmed(svc, wc, amt)

ReceiptOutcome(svc, wc, amt, r, notifyOk) ==
    CASE r \in {"timeout", "receipt_err"} -> r
      [] r = "confirmed" /\ Traded(svc, wc) < amt -> "underflow_panic"
      [] ~notifyOk -> IF r = "confirmed" THEN "confirmed_notify_panic"
                      ELSE "reverted_notify_panic"
      [] OTHER -> r

ExecReceipt(p, w, r, notifyOk, deser) ==
    /\ exec[p][w].pc = "submitted"
    /\ r \in {"timeout", "receipt_err", "reverted", "confirmed"}
    /\ r = "timeout" => HasReceiptTimeout(service)
    /\ ~notifyOk => r \in {"reverted", "confirmed"}
    /\ deser => (exec[p][w].kind = "buyer" /\ r = "receipt_err")
    /\ ExecReturn(p, w,
                  ReceiptOutcome(service, wallets[p][w], exec[p][w].amt, r, notifyOk),
                  AfterReceipt(service, wallets[p][w], exec[p][w].amt, r, notifyOk),
                  exec[p][w].fetched, deser)
    /\ UNCHANGED <<runs, service, feed, delivered, cache, cacheLock, expired, triggers,
                   exit, joined, discarded, skipped,
                   provider_index, fp, got, router, auxVars>>

\* RecoveryNeeded: balance_of, get_balance and get_transaction_count are
\* joined; one Err returns before any field is written.
\* Faulty variant: the nonce is incremented on top of the fetched one.
ResyncThenBump(wc, fetched, ok) ==
    IF ok THEN [fetched EXCEPT !.nonce = @ + 1] ELSE wc

\* Faulty variant: the token balance is written before the joined result is
\* tested.
ResyncWritesEarly(wc, fetched, ok) ==
    IF ok THEN fetched ELSE [wc EXCEPT !.token_balance = fetched.token_balance]

Resync(wc, fetched, ok) == IF ok THEN fetched ELSE wc

\* The three results of tokio::join!: the values read back, with Err in the
\* place of each query that failed.
Queries == {"token_balance", "eth_balance", "nonce"}
QueryErr == -1
Joined(fetched, failed) == [q \in Queries |-> IF q \in failed THEN QueryErr ELSE fetched[q]]

\* Faulty variant: the result of get_transaction_count is written untested.
JoinedOkNonceUntested(res) ==
    /\ res.token_balance # QueryErr
    /\ res.eth_balance # QueryErr
    /\ res.nonce = res.nonce

\* token_balance?, eth_balance? and nonce?: each returns its Err before the
\* first assignment to the wallet context.
JoinedOk(res) == \A q \in Queries : res[q] # QueryErr

\* `failed` is empty or holds the query whose `?` returns: the results behind
\* the first Err are dropped unexamined, so a join with several Errs runs as
\* the join with the first of them alone.
ExecResync(p, w, fetched, failed, deser) ==
    /\ exec[p][w].pc = "recovery"
    /\ fetched \in FetchedStates
    /\ failed \subseteq Queries
    /\ Cardinality(failed) <= 1
    /\ LET res == Joined(fetched, failed)
           ok == JoinedOk(res)
       IN  /\ deser => (exec[p][w].kind = "buyer" /\ ~ok)
           /\ ExecReturn(p, w, IF ok THEN "resynced" ELSE "resync_failed",
                         Resync(wallets[p][w], res, ok), res, deser)
    /\ UNCHANGED <<runs, service, feed, delivered, cache, cacheLock, expired, triggers,
                   exit, joined, discarded, skipped,
                   provider_index, fp, got, router, auxVars>>

(* ------------------ provider health: HttpProviders -------------------- *)
\* get_providers()[provider_index]: the endpoint at a position of the list.
ProviderAt(index) == index

\* get_provider: read the shared index and return the endpoint at it.
GetProvider ==
    /\ got.calls < MaxCalls
    /\ provider_index \in Providers
    /\ got' = [endpoint |-> ProviderAt(provider_index), calls |-> got.calls + 1]
    /\ UNCHANGED <<engineVars, exit, provider_index, fp, router, auxVars>>

\* Top of the loop of fetch_periodically: a wired exit flag that is set ends
\* the task with Err; otherwise the 500 ms interval is awaited for 100 ms and
\* either fires (a probing pass starts at endpoint 0) or the loop continues.
ProbeLoop(fired) ==
    /\ fp.pc = "top"
    /\ IF fp.wired /\ exit
       THEN fp' = [fp EXCEPT !.pc = "failed"]
       ELSE IF fired
       THEN fp' = [fp EXCEPT !.pc = "probe", !.i = 0, !.failed = {},
                             !.answered = FALSE]
       ELSE fp' = fp
    /\ UNCHANGED <<engineVars, exit, provider_index, got, router, auxVars>>

\* Faulty variant: the answer of endpoint i is not stored.
IndexKept(old, i) == old

\* Faulty variant: the position is stored counted from one.
IndexOneBased(old, i) == IF old >= 0 THEN i + 1 ELSE old

\* The index the pass stores when endpoint i answers get_block_number.
IndexAfterOk(old, i) == i

\* Faulty variant: exhaustion does not store the exit flag.
ExitKeptOnDown(ex, wired, i, n) == ex

\* The exit flag after endpoint i of n was found down / failed otherwise.
ExitAfterDown(ex, wired, i, n) == IF wired /\ i = n - 1 THEN TRUE ELSE ex
ExitAfterErr(ex, wired) == IF wired THEN TRUE ELSE ex

\* One get_block_number of the probing pass.
\*   "ok":   the index is written and the pass breaks
\*   "down": lookup / deserialization error, the next endpoint is tried; after
\*           the last one the wired exit flag is stored
\*   "err":  any other error stores the wired exit flag and returns Err
Probe(r) ==
    /\ fp.pc = "probe"
    /\ CASE r = "ok" ->
              /\ provider_index' = IndexAfterOk(provider_index, fp.i)
              /\ fp' = [fp EXCEPT !.pc = "top", !.responded = fp.i,
                                  !.answered = TRUE]
              /\ exit' = exit
         [] r = "down" ->
              /\ provider_index' = provider_index
              /\ fp' = [fp EXCEPT !.failed = @ \cup {fp.i},
                                  !.pc = IF fp.i = NumProviders - 1 THEN "top" ELSE @,
                                  !.i = IF fp.i = NumProviders - 1 THEN @ ELSE @ + 1,
                                  !.exhausted = @ \/ fp.i = NumProviders - 1]
              /\ exit' = ExitAfterDown(exit, fp.wired, fp.i, NumProviders)
         [] OTHER ->
              /\ provider_index' = provider_index
              /\ fp' = [fp EXCEPT !.pc = "failed", !.failed = @ \cup {fp.i}]
              /\ exit' = ExitAfterErr(exit, fp.wired)
    /\ UNCHANGED <<engineVars, got, router, auxVars>>

(* ----------------------------- supervisor ----------------------------- *)
\* JoinSet loop of auto_buy_bot / sell_bot: a finished task is joined and the
\* exit flag stored.
Finished(t) ==
    IF t = "providers" THEN fp.pc = "failed"
    ELSE feed[t].pc \in {"failed", "panicked"}

\* What join_next yields for a finished task: Ok(Err(..)) for a task that
\* returned Err, Err(JoinError) for one that panicked.
JoinResult(t) ==
    IF t # "providers" /\ feed[t].pc = "panicked" THEN "panic" ELSE "err"

\* Faulty variant: a panicked task is joined without storing the flag.
ExitAfterJoinErrOnly(svc, ex, res) == IF res = "err" THEN TRUE ELSE ex

\* The exit flag after a join: auto_buy_bot and sell_bot store it for every
\* result, buy_bot for every result but Ok(Ok(())).
ExitAfterJoin(svc, ex, res) ==
    IF svc = "buyer" THEN (IF res \in {"err", "panic"} THEN TRUE ELSE ex)
    ELSE TRUE

SupervisorJoin(t) ==
    /\ Finished(t)
    /\ t \notin joined
    /\ joined' = joined \cup {t}
    /\ exit' = ExitAfterJoin(service, exit, JoinResult(t))
    /\ UNCHANGED <<runs, service, wallets, lock, feed, delivered, cache, cacheLock,
                   expired, triggers, pending, exec, discarded, skipped,
                   provider_index, fp, got, router, auxVars>>

(* --------------------------- gas price oracle -------------------------- *)
\* Top of the loop of GasPrice::fetch_periodically: a set exit flag ends the
\* task with Err; otherwise the interval is awaited for 100 ms and either
\* fires (the endpoint of the current index is taken) or the loop continues.
GasLoop(fired) ==
    /\ gas.pc = "top"
    /\ IF exit
       THEN gas' = [gas EXCEPT !.pc = "failed", !.why = "exit"]
       ELSE IF fired
       THEN gas' = [gas EXCEPT !.pc = "fetch",
                               !.endpoint = ProviderAt(provider_index)]
       ELSE gas' = gas
    /\ UNCHANGED <<engineVars, exit, provider_index, fp, got, router, calc, codec,
                   keys,
                   obs,
                   wss,
                   sup>>

\* Faulty variant: a malformed response ends the task like any other error.
AfterGasFetchStrict(g, r, fetched) ==
    IF r = "ok"
    THEN [g EXCEPT !.pc = "top", !.gas_price = fetched]
    ELSE [g EXCEPT !.pc = "failed", !.why = "rpc"]

\* The oracle after get_gas_price returned: Ok replaces the cell; the
\* deserialization error continues the loop; any other error is returned.
AfterGasFetch(g, r, fetched) ==
    IF r = "ok"
    THEN [g EXCEPT !.pc = "top", !.gas_price = fetched]
    ELSE IF r = "malformed"
    THEN [g EXCEPT !.pc = "top"]
    ELSE [g EXCEPT !.pc = "failed", !.why = "rpc"]

\* One get_gas_price of the oracle and what the loop does with its result.
\* `fetched`, `last` and `seen` remember the response.
GasFetch(r, fetched) ==
    /\ gas.pc = "fetch"
    /\ gas' = [AfterGasFetch(gas, r, fetched) EXCEPT
                  !.fetched = fetched, !.last = r, !.seen = @ \cup {r}]
    /\ UNCHANGED <<engineVars, exit, provider_index, fp, got, router, calc, codec,
                   keys,
                   obs,
                   wss,
                   sup>>

(* ----------------------------- key material --------------------------- *)
\* load_mnemonic_wallet: the address of the wallet derived from a phrase at an
\* index; different (phrase, index) pairs give different addresses.
LoadMnemonicWallet(phrase, index) == phrase * NumWallets + index + 1

\* The setting whose phrase init() passes to compute_system_wallets for the
\* wallet pool the service trades from.
StateMnemonic(svc) ==
    CASE svc = "autobuy" -> "AUTO_BUYER_MNEMONIC"
      [] svc = "buyer" -> "BUYER_MNEMONIC"
      [] svc = "sell" -> "AUTO_BUYER_MNEMONIC"

\* The setting whose phrase the service's load_wallet derives the signer from.
SignerMnemonic(svc) ==
    CASE svc = "autobuy" -> "AUTO_BUYER_MNEMONIC"
      [] svc = "buyer" -> "BUYER_MNEMONIC"
      [] svc = "sell" -> "SELLER_MNEMONIC"

\* compute_system_wallets stores the address derived at `index` in the
\* WalletContext; the executor that claimed the entry calls
\* load_wallet(wallet_context_mut.index).
LoadWallet ==
    /\ keys.pc = "start"
    /\ keys' = [keys EXCEPT
                  !.pc = "loaded",
                  !.address = LoadMnemonicWallet(keys.env[StateMnemonic(keys.svc)],
                                                 keys.index),
                  !.signer = LoadMnemonicWallet(keys.env[SignerMnemonic(keys.svc)],
                                                keys.index)]
    /\ UNCHANGED <<engineVars, exit, provider_index, fp, got, router, calc, codec,
                   gas,
                   obs,
                   wss,
                   sup>>

(* ------------------ routers: pair resolution, quoting ----------------- *)
\* Results of the fallible calls.
Ok(v) == [ok |-> TRUE, val |-> v]
Err == [ok |-> FALSE, val |-> 0]

\* Faulty variant: the slippage share is added.
SlippageAdded(amount_out, slippage) ==
    amount_out + (amount_out * slippage) \div SlippageScale

\* `amount_out - amount_out * total_slippage_u256 / U256::from(100_000)`.
ApplySlippage(amount_out, slippage) ==
    amount_out - (amount_out * slippage) \div SlippageScale

\* Uniswap3Service::get_amount_out_by_slippage: an Err of the pool's fee()
\* call propagates; a failed quoter call yields Ok(0); otherwise the amount
\* out less the slippage share.
GetAmountOutBySlippage(feeOk, amount_out, slippage) ==
    IF ~feeOk THEN Err
    ELSE IF amount_out = QuoteReverted THEN Ok(0)
    ELSE Ok(ApplySlippage(amount_out, slippage))

\* Uniswap2Service::get_amount_out_min: token_0, get_reserves and the
\* router's get_amount_out are calls whose Err propagates; the router's
\* amount out is then reduced by the slippage share.
GetAmountOutMin(rpcOk, amount_out, slippage) ==
    IF ~rpcOk THEN Err ELSE Ok(ApplySlippage(amount_out, slippage))

\* One slippage-adjusted quote on either venue.
QuoteMin(rpcOk) ==
    /\ calc.pc = "start"
    /\ LET res == IF calc.venue = "v3"
                  THEN GetAmountOutBySlippage(rpcOk, calc.amount_out, calc.slippage)
                  ELSE GetAmountOutMin(rpcOk, calc.amount_out, calc.slippage)
       IN  calc' = [calc EXCEPT !.pc = IF res.ok THEN "done" ELSE "failed",
                                !.min = res.val]
    /\ UNCHANGED <<engineVars, exit, provider_index, fp, got, router, codec, gas, keys,
                   obs,
                   wss,
                   sup>>

\* The loop of Uniswap3Service::compute_pair_address over the fee tiers from
\* tier t on, with its running maximum; each tier's pool is quoted with
\* slippage 0 and kept when its amount is greater than the maximum so far.
RECURSIVE ScanTiers(_, _, _, _, _)
ScanTiers(t, max_amount_out, max_pair_address, pool, quoted) ==
    IF t > NumFeeTiers THEN Ok(max_pair_address)
    ELSE IF pool[t] = ZERO_ADDRESS
    THEN ScanTiers(t + 1, max_amount_out, max_pair_address, pool, quoted)
    ELSE LET amount_out_min == GetAmountOutBySlippage(TRUE, quoted[t], 0).val
         IN  IF amount_out_min > max_amount_out
             THEN ScanTiers(t + 1, amount_out_min, pool[t], pool, quoted)
             ELSE ScanTiers(t + 1, max_amount_out, max_pair_address, pool, quoted)

\* Uniswap3Service::compute_pair_address: with a fee-tier hint the factory's
\* answer is returned as it is; without one the tiers are scanned from
\* max_pair_address = ZERO_ADDRESS.  rpcOk = FALSE is an Err of a call.
ComputePairAddressV3(pool, quoted, fee_tier_v3, rpcOk) ==
    IF ~rpcOk THEN Err
    ELSE IF fee_tier_v3 # NoFeeTier THEN Ok(pool[fee_tier_v3])
    ELSE ScanTiers(1, 0, ZERO_ADDRESS, pool, quoted)

\* Uniswap2Service::compute_pair_address: a zero pair is an Err.
ComputePairAddressV2(pair, rpcOk) ==
    IF ~rpcOk \/ pair = ZERO_ADDRESS THEN Err ELSE Ok(pair)

\* RouterService::get_pair_address_by_router.
GetPairAddressByRouter(rt, fee_tier_v3, rpcOk) ==
    IF rt.venue = "v3"
    THEN ComputePairAddressV3(rt.pool, rt.quoted, fee_tier_v3, rpcOk)
    ELSE ComputePairAddressV2(rt.pair, rpcOk)

ResolvePair(fee_tier_v3, rpcOk) ==
    /\ router.pc = "start"
    /\ LET res == GetPairAddressByRouter(router, fee_tier_v3, rpcOk)
       IN  router' = [router EXCEPT !.pc = IF res.ok THEN "resolved" ELSE "failed",
                                    !.resolved = res.val]
    /\ UNCHANGED <<engineVars, exit, provider_index, fp, got, auxVars>>

\* Uniswap3Service::buy_token / sell_token: a pool without liquidity is an
\* Err; amount_out_minimum is the quoted minimum when slippage is applied
\* and zero otherwise; the swap is built with whatever it is.
BuyToken(pool_address, liquidity, is_apply_slippage, feeOk, amount_out, slippage) ==
    LET min == IF is_apply_slippage
               THEN GetAmountOutBySlippage(feeOk, amount_out, slippage)
               ELSE Ok(0)
    IN  IF liquidity = 0 \/ ~min.ok THEN Err
        ELSE Ok([pool |-> pool_address, apply |-> is_apply_slippage,
                 amount_out_minimum |-> min.val])

\* construct_buy_token_tx / construct_sell_token_tx of an executor on the
\* resolved pool of a concentrated-liquidity venue.  The quoter's answer is
\* the one the pool's fee tier has; a call on the zero address fails.
ConstructTx(liquidity, is_apply_slippage, feeOk, slippage) ==
    /\ router.pc = "resolved"
    /\ router.venue = "v3"
    /\ router.resolved = ZERO_ADDRESS => liquidity = 0
    /\ LET amount_out == IF router.resolved = ZERO_ADDRESS THEN QuoteReverted
                         ELSE router.quoted[router.resolved]
           res == BuyToken(router.resolved, liquidity, is_apply_slippage,
                           feeOk, amount_out, slippage)
       IN  router' = [router EXCEPT !.pc = IF res.ok THEN "built" ELSE "skipped",
                                    !.tx = IF res.ok THEN res.val ELSE NoTx]
    /\ UNCHANGED <<engineVars, exit, provider_index, fp, got, auxVars>>

\* try_buy / sell: the built transaction is signed and broadcast.
SendTx ==
    /\ router.pc = "built"
    /\ router' = [router EXCEPT !.pc = "sent"]
    /\ UNCHANGED <<engineVars, exit, provider_index, fp, got, auxVars>>

(* ------------------- calldata: packed swap paths ---------------------- *)
\* The packed path of a concentrated-liquidity swap: address, fee, address,
\* fee, ..., address.
RECURSIVE EncodePathV3(_, _)
EncodePathV3(path, fees) ==
    IF Len(path) = 1 THEN AddrOf(path[1])
    ELSE AddrOf(path[1]) \o FeeOf(fees[1]) \o EncodePathV3(Tail(path), Tail(fees))

Reverse(q) == [i \in 1..Len(q) |-> q[Len(q) + 1 - i]]

\* Faulty variant: the fee bytes are not skipped.
NextIndexNoSkip(index, filled) == IF filled THEN index + 1 ELSE index + 1

\* extract_path_from_v3, the index after one byte was pushed: past the fee
\* when the byte completed an address.
NextIndex(index, filled) == IF filled THEN index + 1 + FeeBytes ELSE index + 1

\* The while loop of extract_path_from_v3 from `index` (0-based) on.
RECURSIVE ExtractLoop(_, _, _, _)
ExtractLoop(full_path, index, current_address, path) ==
    IF index >= Len(full_path) THEN path
    ELSE LET pushed == Append(current_address, full_path[index + 1])
             filled == Len(pushed) = AddressBytes
         IN  ExtractLoop(full_path, NextIndex(index, filled),
                         IF filled THEN <<>> ELSE pushed,
                         IF filled THEN Append(path, pushed) ELSE path)

\* extract_path_from_v3.
ExtractPathFromV3(full_path, is_reverse) ==
    LET path == ExtractLoop(full_path, 0, <<>>, <<>>)
    IN  IF is_reverse THEN Reverse(path) ELSE path

ExtractPath ==
    /\ codec.pc = "start"
    /\ codec' = [codec EXCEPT
                   !.pc = "done",
                   !.out = ExtractPathFromV3(EncodePathV3(codec.path, codec.fees),
                                             codec.is_reverse)]
    /\ UNCHANGED <<engineVars, exit, provider_index, fp, got, router, calc, gas, keys,
                   obs,
                   wss,
                   sup>>

(* ---------------- calldata: universal and classic swaps --------------- *)
\* The addresses of a token path, and the recipient of a swap.
AddressesOf(path) == [i \in 1..Len(path) |-> AddrOf(path[i])]
Recipient == AddrOf(NumAddrs + 1)

\* The ABI-decoded input of a universal-router swap command for the swap of
\* `amount` along `path`: (recipient, amountIn, amountOutMin, path,
\* payerIsUser) for exact-in, (recipient, amountOut, amountInMax, path,
\* payerIsUser) for exact-out; the v2 path is an address array, the v3 path
\* is packed, and packed from the output token backwards for exact-out.
UniversalInput(command, amount, limit, path, fees) ==
    LET field == CASE command = V3_SWAP_EXACT_IN -> EncodePathV3(path, fees)
                   [] command = V3_SWAP_EXACT_OUT ->
                         EncodePathV3(Reverse(path), Reverse(fees))
                   [] OTHER -> AddressesOf(path)
    IN  <<Recipient, amount, limit, field, TRUE>>

\* decode_v2_swap_exact_in / _out: tokens[1] is the amount, tokens[3] the
\* address array.
DecodeV2SwapExactIn(tokens) == SwapUniversalRouterInfo(tokens[2], 0, tokens[4])
DecodeV2SwapExactOut(tokens) == SwapUniversalRouterInfo(0, tokens[2], tokens[4])

\* decode_v3_swap_exact_in: tokens[3] is the packed path, read forwards.
DecodeV3SwapExactIn(tokens) ==
    SwapUniversalRouterInfo(tokens[2], 0, ExtractPathFromV3(tokens[4], FALSE))

\* Faulty variant: the exact-out path is read forwards.
DecodeV3SwapExactOutForward(tokens) ==
    SwapUniversalRouterInfo(0, tokens[2], ExtractPathFromV3(tokens[4], FALSE))

\* decode_v3_swap_exact_out: the packed path is read and reversed.
DecodeV3SwapExactOut(tokens) ==
    SwapUniversalRouterInfo(0, tokens[2], ExtractPathFromV3(tokens[4], TRUE))

\* universal_decode: an unknown command yields the default info.
UniversalDecode(command, tokens) ==
    CASE command = V2_SWAP_EXACT_IN -> DecodeV2SwapExactIn(tokens)
      [] command = V2_SWAP_EXACT_OUT -> DecodeV2SwapExactOut(tokens)
      [] command = V3_SWAP_EXACT_IN -> DecodeV3SwapExactIn(tokens)
      [] command = V3_SWAP_EXACT_OUT -> DecodeV3SwapExactOut(tokens)
      [] OTHER -> SwapUniversalRouterInfo(0, 0, <<>>)

\* The decoded arguments of the classic calls for the same swap:
\* swapExactTokensForETHSupportingFeeOnTransferTokens(amountIn, amountOutMin,
\* path, to, deadline) and exactInputSingle(tokenIn, tokenOut, fee,
\* recipient, amountIn, amountOutMinimum, sqrtPriceLimitX96).
ClassicInputV2(amount, limit, path) ==
    <<amount, limit, AddressesOf(path), Recipient, 0>>
ClassicInputV3(amount, limit, path, fees) ==
    <<AddrOf(path[1]), AddrOf(path[2]), fees[1], Recipient, amount, limit, 0>>

\* start_mempool_mode on a classic call: decoded_data[0] and [2] of the v2
\* call are the amount and the path; decoded_data[0] and [4] of the v3 call
\* are the sold token and the amount.
DecodeClassicV2(decoded) == SwapUniversalRouterInfo(decoded[1], 0, decoded[3])
DecodeClassicV3(decoded) == SwapUniversalRouterInfo(decoded[5], 0, <<decoded[1]>>)

\* One single-hop swap decoded from its universal encoding and, for the
\* exact-in commands, from its classic one.
DecodeSwap ==
    /\ codec.pc = "start"
    /\ Len(codec.path) = 2
    /\ LET tokens == UniversalInput(codec.command, codec.amount, codec.limit,
                                    codec.path, codec.fees)
       IN  codec' = [codec EXCEPT
              !.pc = "decoded",
              !.info = UniversalDecode(codec.command, tokens),
              !.classic =
                 CASE codec.command = V2_SWAP_EXACT_IN ->
                        DecodeClassicV2(ClassicInputV2(codec.amount, codec.limit,
                                                       codec.path))
                   [] codec.command = V3_SWAP_EXACT_IN ->
                        DecodeClassicV3(ClassicInputV3(codec.amount, codec.limit,
                                                       codec.path, codec.fees))
                   [] OTHER -> @]
    /\ UNCHANGED <<engineVars, exit, provider_index, fp, got, router, calc, gas, keys,
                   obs,
                   wss,
                   sup>>

(* ------------- websocket log stream: forwarding tasks ----------------- *)
\* Faulty variant: the guard is handed out while another task holds it.
WsTryLockShared(l) == l >= 0

\* tx_hashes_cache_clone.lock().await completes when no task holds the mutex.
WsTryLock(l) == l = 0

\* stream.next().await yields a log; its transaction hash is unwrapped.
WsStreamNext(t, h) ==
    /\ wss.pc[t] = "next"
    /\ wss.n[t] < MaxWsDeliveries
    /\ wss' = [wss EXCEPT !.pc[t] = "lock", !.event[t] = h, !.n[t] = @ + 1]
    /\ UNCHANGED <<engineVars, exit, provider_index, fp, got, router,
                   calc, codec, gas, keys, obs,
                   sup>>

WsLock(t) ==
    /\ wss.pc[t] = "lock"
    /\ WsTryLock(wss.lock)
    /\ wss' = [wss EXCEPT !.pc[t] = "held", !.lock = t]
    /\ UNCHANGED <<engineVars, exit, provider_index, fp, got, router,
                   calc, codec, gas, keys, obs,
                   sup>>

\* cache_get(&tx_hash).is_none(): an entry older than the 180 s lifespan is
\* evicted and reported absent, which ends the window `sent` counts in.  On a
\* hit the loop body ends and the guard is dropped.
WsCacheGet(t, lapsed) ==
    LET h == wss.event[t]
        hit == CacheGet(wss.cache, h, lapsed)
    IN  /\ wss.pc[t] = "held"
        /\ lapsed => h \in wss.cache
        /\ wss' = [wss EXCEPT
                    !.cache = IF lapsed THEN @ \ {h} ELSE @,
                    !.sent[h] = IF lapsed THEN 0 ELSE @,
                    !.pc[t] = IF hit THEN "next" ELSE "fresh",
                    !.handled[t] = IF hit THEN @ \cup {h} ELSE @,
                    !.lock = IF hit /\ @ = t THEN 0 ELSE @]
        /\ UNCHANGED <<engineVars, exit, provider_index, fp, got, router,
                       calc, codec, gas, keys, obs,
                   sup>>

\* event_sender_clone.send(event).unwrap() then cache_set(tx_hash, true); the
\* guard is dropped at the end of the loop body.  send returns Err when no
\* receiver is left, and the unwrap ends the task; the unwinding drops the
\* guard.
WsSend(t) ==
    LET h == wss.event[t]
    IN  /\ wss.pc[t] = "fresh"
        /\ wss' = IF wss.receiver
                  THEN [wss EXCEPT !.sent[h] = @ + 1,
                                  !.cache = @ \cup {h},
                                  !.pc[t] = "next",
                                  !.handled[t] = @ \cup {h},
                                  !.lock = IF @ = t THEN 0 ELSE @]
                  ELSE [wss EXCEPT !.pc[t] = "panicked",
                                  !.lock = IF @ = t THEN 0 ELSE @]
        /\ UNCHANGED <<engineVars, exit, provider_index, fp, got, router,
                       calc, codec, gas, keys, obs,
                   sup>>

\* The caller of subscribe_logs_stream ends and drops the receiver.
WsReceiverDrop ==
    /\ wss.receiver
    /\ \E t \in WsTasks : wss.pc[t] # "off"
    /\ wss' = [wss EXCEPT !.receiver = FALSE]
    /\ UNCHANGED <<engineVars, exit, provider_index, fp, got, router,
                   calc, codec, gas, keys, obs,
                   sup>>

(* ------------- supervisors: buy_bot, market_make ---------------------- *)
\* A worker returns: Ok(()) when its loops ended, Err from a `?`, or it
\* panics.
SupWorkerEnd(t, res) ==
    /\ sup.pc = "joining"
    /\ t \in SupWorkers(sup.bot)
    /\ sup.st[t] = "running"
    /\ res \in {"ok", "err", "panic"}
    /\ sup' = [sup EXCEPT !.st[t] = res]
    /\ UNCHANGED <<engineVars, exit, provider_index, fp, got, router,
                   calc, codec, gas, keys, obs, wss>>

\* Top of the loop of a fetch_periodically task: the set exit flag makes it
\* return Err.  Neither loop has another exit but a failure.
SupPeriodicExit(t) ==
    /\ sup.pc = "joining"
    /\ t \in {"gas", "providers"}
    /\ sup.st[t] = "running"
    /\ sup.exit
    /\ sup' = [sup EXCEPT !.st[t] = "err"]
    /\ UNCHANGED <<engineVars, exit, provider_index, fp, got, router,
                   calc, codec, gas, keys, obs, wss>>

\* A fetch_periodically task fails by itself: the provider task stores the
\* exit flag before it returns Err, the gas task returns Err.
SupPeriodicFail(t) ==
    /\ sup.pc = "joining"
    /\ t \in {"gas", "providers"}
    /\ sup.st[t] = "running"
    /\ sup' = [sup EXCEPT !.st[t] = "err",
                          !.exit = ExitAfterErr(@, t = "providers")]
    /\ UNCHANGED <<engineVars, exit, provider_index, fp, got, router,
                   calc, codec, gas, keys, obs, wss>>

\* set.join_next() yields a finished task; the match stores the exit flag for
\* Ok(Err(..)) and Err(..) and only logs for Ok(Ok(())).
SupJoin(t) ==
    /\ sup.pc = "joining"
    /\ sup.st[t] \in {"ok", "err", "panic"}
    /\ t \notin sup.joined
    /\ sup' = [sup EXCEPT !.joined = @ \cup {t},
                          !.exit = ExitAfterJoin("buyer", @, sup.st[t])]
    /\ UNCHANGED <<engineVars, exit, provider_index, fp, got, router,
                   calc, codec, gas, keys, obs, wss>>

\* join_next() yields None once every task of the set has been joined; the
\* loop ends and the function returns Ok(()).
SupReturn ==
    /\ sup.pc = "joining"
    /\ \A t \in SupNames : sup.st[t] # "absent" => t \in sup.joined
    /\ sup' = [sup EXCEPT !.pc = "returned"]
    /\ UNCHANGED <<engineVars, exit, provider_index, fp, got, router,
                   calc, codec, gas, keys, obs, wss>>

(* --------------- pending-transaction feed: observed value ------------- *)
\* The swap info the loop body of AutoBuyService::start_mempool_mode decodes
\* from the calldata of a swap of `amount` along `path`.
DecodedSwap(encoding, command, amount, path) ==
    CASE encoding = "universal" ->
           UniversalDecode(command,
                           UniversalInput(command, amount, 0, path, <<1>>))
      [] encoding = "classic" ->
           DecodeClassicV2(ClassicInputV2(amount, 0, path))
      [] encoding = "concentrated" ->
           DecodeClassicV3(ClassicInputV3(amount, 0, path, <<1>>))

\* Whether the decoded swap is taken for a sell of the tracked token: the
\* universal branch compares path[0] and path[1], the classic branches only
\* the sold token.
IsSellMatched(encoding, info) ==
    IF encoding = "universal"
    THEN /\ Len(info.path) >= 2
         /\ info.path[1] = AddrOf(TOKEN)
         /\ info.path[2] = AddrOf(WETH)
    ELSE info.path[1] = AddrOf(TOKEN)

\* transaction_value: the classic branches call get_amount_out with
\* sell_token_amount (`quote` is what it returns); the universal branch takes
\* sell_tx_value, the amount_out of the decoded command.
TransactionValue(encoding, info, quote) ==
    IF encoding = "universal" THEN info.amount_out ELSE quote

\* One iteration of the loop body up to the call of process_trigger_buy.
ObserveSell ==
    /\ obs.pc = "start"
    /\ LET info == DecodedSwap(obs.encoding, obs.command, obs.amount, obs.path)
       IN  IF IsSellMatched(obs.encoding, info)
           THEN obs' = [obs EXCEPT
                          !.pc = "observed",
                          !.sell_token_amount = info.amount_in,
                          !.transaction_value =
                              TransactionValue(obs.encoding, info, obs.quote)]
           ELSE obs' = [obs EXCEPT !.pc = "skipped"]
    /\ UNCHANGED <<engineVars, exit, provider_index, fp, got, router, calc, codec,
                   gas, keys,
                   wss,
                   sup>>

(* --------------------------- specification ---------------------------- *)
\* Inputs of a trigger: the observed value, the launch notification, the
\* quote (SellService only; -1 is an Err) and the random percentage.
Values == 1..MaxValue
Quotes == IF service = "sell" THEN -1..MaxValue ELSE {0}
Percents == MinPercent..MaxPercent

Next ==
    \/ \E f \in Feeds : FeedExit(f)
    \/ MempoolWait
    \/ \E h \in Hashes \ delivered["mempool"], v \in Values, t \in BOOLEAN,
          o \in {"skip", "err", "quote_err"} :
          MempoolHandle(h, v, t, o, TRUE, 0, MaxPercent)
    \/ \E h \in Hashes \ delivered["mempool"], v \in Values, n \in BOOLEAN,
          q \in Quotes, pct \in Percents :
          MempoolHandle(h, v, TRUE, "match", n, q, pct)
    \/ \E h \in Hashes \ delivered["event"], v \in Values, l \in BOOLEAN :
          EventHandle(h, v, l)
    \/ \E o \in {"skip", "err", "quote_err"} : EventTrigger(o, TRUE, 0, MaxPercent)
    \/ \E n \in BOOLEAN, q \in Quotes, pct \in Percents : EventTrigger("ok", n, q, pct)
    \/ \E f \in Feeds : feed[f].todo # {} /\ AllocVisit(f, NextWallet(feed[f].todo))
    \/ \E f \in Feeds : \E w \in feed[f].chosen \cup {NoWallet}, n \in BOOLEAN :
          AllocFinish(f, w, n)
    \/ \E p \in Feeds : \E job \in DOMAIN pending[p] :
          \E r \in BuildOutcomes(job.kind, wallets[p][job.w]), d \in BOOLEAN :
             ExecStart(p, job.w, job, r, d)
    \/ \E p \in Feeds, w \in Wallets, n \in BOOLEAN, d \in BOOLEAN,
          r \in {"timeout", "receipt_err", "reverted", "confirmed"} :
          ExecReceipt(p, w, r, n, d)
    \/ \E p \in Feeds, w \in Wallets, f \in FetchedStates, d \in BOOLEAN :
          \E failed \in SUBSET Queries : ExecResync(p, w, f, failed, d)
    \/ \E p \in Feeds, w \in Wallets : ExecReap(p, w)
    \/ \E f \in Feeds : FeedContinue(f)
    \/ \E f \in Feeds : SupervisorJoin(f)

Spec == Init /\ [][Next]_vars

\* Provider health on its own: fetch_periodically, the callers of
\* get_provider, the feeds polling the exit flag and the supervisor.
InitProviders ==
    /\ service \in {"autobuy", "buyer"}
    /\ wallets = [p \in Feeds |-> [w \in Wallets |-> WalletContext(0, 0, MaxBal)]]
    /\ lock = [p \in Feeds |-> [w \in Wallets |-> "free"]]
    /\ feed = [f \in Feeds |->
                 IF service = "buyer" THEN [IdleFeed EXCEPT !.pc = "off"] ELSE IdleFeed]
    /\ delivered = [f \in Feeds |-> {}]
    /\ cache = {}
    /\ cacheLock = "free"
    /\ expired = {}
    /\ triggers = [h \in Hashes |-> {}]
    /\ pending = [p \in Feeds |-> EmptyBag]
    /\ exec = [p \in Feeds |-> [w \in Wallets |-> IdleExec]]
    /\ runs = MaxRuns
    /\ exit = FALSE
    /\ joined = {}
    /\ discarded = {}
    /\ skipped = {}
    /\ provider_index \in Providers
    /\ \E wired \in BOOLEAN : fp = [IdleProbe EXCEPT !.pc = "top", !.wired = wired]
    /\ got = [endpoint |-> NoEndpoint, calls |-> 0]
    /\ router = IdleRouter
    /\ calc = IdleCalc
    /\ codec = IdleCodec
    /\ gas = IdleGas
    /\ obs = IdleObs
    /\ wss = IdleWs
    /\ sup = IdleSup
    /\ keys = IdleKeys

NextProviders ==
    \/ GetProvider
    \/ \E fired \in BOOLEAN : ProbeLoop(fired)
    \/ \E r \in {"ok", "down", "err"} : Probe(r)
    \/ \E f \in Feeds : FeedExit(f)
    \/ \E t \in Feeds \cup {"providers"} : SupervisorJoin(t)

SpecProviders == InitProviders /\ [][NextProviders]_vars

\* The router services on their own: one resolution of the pool from what
\* the factories and the quoter hold, then one transaction built on it.
InitRouter ==
    /\ service = "autobuy"
    /\ wallets = [p \in Feeds |-> [w \in Wallets |-> WalletContext(0, 0, MaxBal)]]
    /\ lock = [p \in Feeds |-> [w \in Wallets |-> "free"]]
    /\ feed = [f \in Feeds |-> IdleFeed]
    /\ delivered = [f \in Feeds |-> {}]
    /\ cache = {}
    /\ cacheLock = "free"
    /\ expired = {}
    /\ triggers = [h \in Hashes |-> {}]
    /\ pending = [p \in Feeds |-> EmptyBag]
    /\ exec = [p \in Feeds |-> [w \in Wallets |-> IdleExec]]
    /\ runs = MaxRuns
    /\ exit = FALSE
    /\ joined = {}
    /\ discarded = {}
    /\ skipped = {}
    /\ provider_index = 0
    /\ fp = IdleProbe
    /\ got = [endpoint |-> NoEndpoint, calls |-> 0]
    /\ calc = IdleCalc
    /\ codec = IdleCodec
    /\ gas = IdleGas
    /\ obs = IdleObs
    /\ wss = IdleWs
    /\ sup = IdleSup
    /\ keys = IdleKeys
    /\ \E venue \in Venues, exists \in SUBSET FeeTiers, pair \in {ZERO_ADDRESS, V2Pair},
          quoted \in [FeeTiers -> AmountsOut] :
          router = [IdleRouter EXCEPT
                      !.venue = venue,
                      !.pool = [t \in FeeTiers |->
                                  IF t \in exists THEN t ELSE ZERO_ADDRESS],
                      !.pair = pair,
                      !.quoted = quoted]

NextRouter ==
    \/ \E fee_tier_v3 \in FeeTiers \cup {NoFeeTier}, rpcOk \in BOOLEAN :
          ResolvePair(fee_tier_v3, rpcOk)
    \/ \E liquidity \in 0..1, apply \in BOOLEAN, feeOk \in BOOLEAN,
          slippage \in Slippages :
          ConstructTx(liquidity, apply, feeOk, slippage)
    \/ SendTx

SpecRouter == InitRouter /\ [][NextRouter]_vars

\* The slippage arithmetic on its own: a venue's amount out and a slippage
\* below one hundred percent, then one computation of the minimum.
SlippageSamples == {0, 1, SlippageScale \div 2, SlippageScale - 1}

InitQuote ==
    /\ service = "autobuy"
    /\ wallets = [p \in Feeds |-> [w \in Wallets |-> WalletContext(0, 0, MaxBal)]]
    /\ lock = [p \in Feeds |-> [w \in Wallets |-> "free"]]
    /\ feed = [f \in Feeds |-> IdleFeed]
    /\ delivered = [f \in Feeds |-> {}]
    /\ cache = {}
    /\ cacheLock = "free"
    /\ expired = {}
    /\ triggers = [h \in Hashes |-> {}]
    /\ pending = [p \in Feeds |-> EmptyBag]
    /\ exec = [p \in Feeds |-> [w \in Wallets |-> IdleExec]]
    /\ runs = MaxRuns
    /\ exit = FALSE
    /\ joined = {}
    /\ discarded = {}
    /\ skipped = {}
    /\ provider_index = 0
    /\ fp = IdleProbe
    /\ got = [endpoint |-> NoEndpoint, calls |-> 0]
    /\ router = IdleRouter
    /\ codec = IdleCodec
    /\ gas = IdleGas
    /\ obs = IdleObs
    /\ wss = IdleWs
    /\ sup = IdleSup
    /\ keys = IdleKeys
    /\ \E venue \in Venues, amount_out \in 0..MaxAmountOut, slippage \in SlippageSamples :
          calc = [IdleCalc EXCEPT !.venue = venue, !.amount_out = amount_out,
                                  !.slippage = slippage]

NextQuote == \E rpcOk \in BOOLEAN : QuoteMin(rpcOk)

SpecQuote == InitQuote /\ [][NextQuote]_vars

\* The calldata decoders on their own: a packed path, then one decoding.
InitCodec ==
    /\ service = "autobuy"
    /\ wallets = [p \in Feeds |-> [w \in Wallets |-> WalletContext(0, 0, MaxBal)]]
    /\ lock = [p \in Feeds |-> [w \in Wallets |-> "free"]]
    /\ feed = [f \in Feeds |-> IdleFeed]
    /\ delivered = [f \in Feeds |-> {}]
    /\ cache = {}
    /\ cacheLock = "free"
    /\ expired = {}
    /\ triggers = [h \in Hashes |-> {}]
    /\ pending = [p \in Feeds |-> EmptyBag]
    /\ exec = [p \in Feeds |-> [w \in Wallets |-> IdleExec]]
    /\ runs = MaxRuns
    /\ exit = FALSE
    /\ joined = {}
    /\ discarded = {}
    /\ skipped = {}
    /\ provider_index = 0
    /\ fp = IdleProbe
    /\ got = [endpoint |-> NoEndpoint, calls |-> 0]
    /\ router = IdleRouter
    /\ calc = IdleCalc
    /\ \E n \in 1..MaxPathLen : \E path \in PathsOf(n), fees \in FeesOf(n),
          is_reverse \in BOOLEAN, command \in SwapCommands \cup {OtherCommand},
          amount \in 1..MaxAmount :
          codec = [IdleCodec EXCEPT !.path = path, !.fees = fees,
                                    !.is_reverse = is_reverse,
                                    !.command = command, !.amount = amount,
                                    !.limit = MaxAmount + amount]
    /\ gas = IdleGas
    /\ obs = IdleObs
    /\ wss = IdleWs
    /\ sup = IdleSup
    /\ keys = IdleKeys

NextCodec ==
    \/ ExtractPath
    \/ DecodeSwap

SpecCodec == InitCodec /\ [][NextCodec]_vars

(* --------------------------- gas price oracle -------------------------- *)
InitGas ==
    /\ service = "autobuy"
    /\ wallets = [p \in Feeds |-> [w \in Wallets |-> WalletContext(0, 0, MaxBal)]]
    /\ lock = [p \in Feeds |-> [w \in Wallets |-> "free"]]
    /\ feed = [f \in Feeds |-> [IdleFeed EXCEPT !.pc = "off"]]
    /\ delivered = [f \in Feeds |-> {}]
    /\ cache = {}
    /\ cacheLock = "free"
    /\ expired = {}
    /\ triggers = [h \in Hashes |-> {}]
    /\ pending = [p \in Feeds |-> EmptyBag]
    /\ exec = [p \in Feeds |-> [w \in Wallets |-> IdleExec]]
    /\ runs = MaxRuns
    /\ exit = FALSE
    /\ joined = {}
    /\ discarded = {}
    /\ skipped = {}
    /\ provider_index \in Providers
    /\ fp = [IdleProbe EXCEPT !.pc = "top"]
    /\ got = [endpoint |-> NoEndpoint, calls |-> 0]
    /\ router = IdleRouter
    /\ calc = IdleCalc
    /\ codec = IdleCodec
    /\ \E g \in GasPrices : gas = [IdleGas EXCEPT !.pc = "top", !.gas_price = g]
    /\ obs = IdleObs
    /\ wss = IdleWs
    /\ sup = IdleSup
    /\ keys = IdleKeys

NextGas ==
    \/ \E fired \in BOOLEAN : GasLoop(fired)
    \/ \E r \in {"ok", "malformed", "err"}, g \in GasPrices : GasFetch(r, g)
    \/ \E fired \in BOOLEAN : ProbeLoop(fired)
    \/ \E r \in {"ok", "down", "err"} : Probe(r)

SpecGas == InitGas /\ [][NextGas]_vars

(* ----------------------------- key material --------------------------- *)
InitKeys ==
    /\ service = "autobuy"
    /\ wallets = [p \in Feeds |-> [w \in Wallets |-> WalletContext(0, 0, MaxBal)]]
    /\ lock = [p \in Feeds |-> [w \in Wallets |-> "free"]]
    /\ feed = [f \in Feeds |-> [IdleFeed EXCEPT !.pc = "off"]]
    /\ delivered = [f \in Feeds |-> {}]
    /\ cache = {}
    /\ cacheLock = "free"
    /\ expired = {}
    /\ triggers = [h \in Hashes |-> {}]
    /\ pending = [p \in Feeds |-> EmptyBag]
    /\ exec = [p \in Feeds |-> [w \in Wallets |-> IdleExec]]
    /\ runs = MaxRuns
    /\ exit = FALSE
    /\ joined = {}
    /\ discarded = {}
    /\ skipped = {}
    /\ provider_index = 0
    /\ fp = IdleProbe
    /\ got = [endpoint |-> NoEndpoint, calls |-> 0]
    /\ router = IdleRouter
    /\ calc = IdleCalc
    /\ codec = IdleCodec
    /\ gas = IdleGas
    /\ obs = IdleObs
    /\ wss = IdleWs
    /\ sup = IdleSup
    /\ \E svc \in Services, index \in 0..(NumWallets - 1),
          env \in [MnemonicSettings -> Phrases] :
          keys = [IdleKeys EXCEPT !.svc = svc, !.index = index, !.env = env]

NextKeys == LoadWallet

SpecKeys == InitKeys /\ [][NextKeys]_vars

(* --------------- pending-transaction feed: observed value ------------- *)
InitObserve ==
    /\ service = "autobuy"
    /\ wallets = [p \in Feeds |-> [w \in Wallets |-> WalletContext(0, 0, MaxBal)]]
    /\ lock = [p \in Feeds |-> [w \in Wallets |-> "free"]]
    /\ feed = [f \in Feeds |-> [IdleFeed EXCEPT !.pc = "off"]]
    /\ delivered = [f \in Feeds |-> {}]
    /\ cache = {}
    /\ cacheLock = "free"
    /\ expired = {}
    /\ triggers = [h \in Hashes |-> {}]
    /\ pending = [p \in Feeds |-> EmptyBag]
    /\ exec = [p \in Feeds |-> [w \in Wallets |-> IdleExec]]
    /\ runs = MaxRuns
    /\ exit = FALSE
    /\ joined = {}
    /\ discarded = {}
    /\ skipped = {}
    /\ provider_index = 0
    /\ fp = IdleProbe
    /\ got = [endpoint |-> NoEndpoint, calls |-> 0]
    /\ router = IdleRouter
    /\ calc = IdleCalc
    /\ codec = IdleCodec
    /\ gas = IdleGas
    /\ wss = IdleWs
    /\ sup = IdleSup
    /\ keys = IdleKeys
    /\ \E encoding \in {"classic", "concentrated", "universal"} :
       \E command \in IF encoding = "universal"
                      THEN SwapCommands \cup {OtherCommand} ELSE {OtherCommand},
          path \in PathsOf(2), amount \in 1..MaxAmount, quote \in 1..MaxQuote :
          obs = [IdleObs EXCEPT !.encoding = encoding, !.command = command,
                                !.path = path, !.amount = amount, !.quote = quote]

NextObserve == ObserveSell

SpecObserve == InitObserve /\ [][NextObserve]_vars

(* ------------- WsProviders::subscribe_logs_stream --------------------- *)
InitWs ==
    /\ service = "autobuy"
    /\ wallets = [p \in Feeds |-> [w \in Wallets |-> WalletContext(0, 0, MaxBal)]]
    /\ lock = [p \in Feeds |-> [w \in Wallets |-> "free"]]
    /\ feed = [f \in Feeds |-> [IdleFeed EXCEPT !.pc = "off"]]
    /\ delivered = [f \in Feeds |-> {}]
    /\ cache = {}
    /\ cacheLock = "free"
    /\ expired = {}
    /\ triggers = [h \in Hashes |-> {}]
    /\ pending = [p \in Feeds |-> EmptyBag]
    /\ exec = [p \in Feeds |-> [w \in Wallets |-> IdleExec]]
    /\ runs = MaxRuns
    /\ exit = FALSE
    /\ joined = {}
    /\ discarded = {}
    /\ skipped = {}
    /\ provider_index = 0
    /\ fp = IdleProbe
    /\ got = [endpoint |-> NoEndpoint, calls |-> 0]
    /\ router = IdleRouter
    /\ calc = IdleCalc
    /\ codec = IdleCodec
    /\ gas = IdleGas
    /\ sup = IdleSup
    /\ keys = IdleKeys
    /\ obs = IdleObs
    /\ wss = [IdleWs EXCEPT !.pc = [t \in WsTasks |-> "next"]]

NextWs ==
    \/ \E t \in WsTasks, h \in Hashes : WsStreamNext(t, h)
    \/ \E t \in WsTasks : WsLock(t)
    \/ \E t \in WsTasks, lapsed \in BOOLEAN : WsCacheGet(t, lapsed)
    \/ \E t \in WsTasks : WsSend(t)
    \/ WsReceiverDrop

SpecWs == InitWs /\ [][NextWs]_vars

(* ------------------- supervisors on their own ------------------------- *)
InitSup ==
    /\ service = "buyer"
    /\ wallets = [p \in Feeds |-> [w \in Wallets |-> WalletContext(0, 0, MaxBal)]]
    /\ lock = [p \in Feeds |-> [w \in Wallets |-> "free"]]
    /\ feed = [f \in Feeds |-> [IdleFeed EXCEPT !.pc = "off"]]
    /\ delivered = [f \in Feeds |-> {}]
    /\ cache = {}
    /\ cacheLock = "free"
    /\ expired = {}
    /\ triggers = [h \in Hashes |-> {}]
    /\ pending = [p \in Feeds |-> EmptyBag]
    /\ exec = [p \in Feeds |-> [w \in Wallets |-> IdleExec]]
    /\ runs = MaxRuns
    /\ exit = FALSE
    /\ joined = {}
    /\ discarded = {}
    /\ skipped = {}
    /\ provider_index = 0
    /\ fp = IdleProbe
    /\ got = [endpoint |-> NoEndpoint, calls |-> 0]
    /\ router = IdleRouter
    /\ calc = IdleCalc
    /\ codec = IdleCodec
    /\ gas = IdleGas
    /\ keys = IdleKeys
    /\ obs = IdleObs
    /\ wss = IdleWs
    /\ \E bot \in {"buy_bot", "market_make"} :
          sup = [IdleSup EXCEPT
                   !.pc = "joining", !.bot = bot,
                   !.st = [t \in SupNames |->
                             IF \/ t \in SupWorkers(bot)
                                \/ t = "providers"
                                \/ t = "gas" /\ bot = "buy_bot"
                             THEN "running" ELSE "absent"]]

NextSup ==
    \/ \E t \in SupNames, res \in {"ok", "err", "panic"} : SupWorkerEnd(t, res)
    \/ \E t \in SupNames : SupPeriodicExit(t)
    \/ \E t \in SupNames : SupPeriodicFail(t)
    \/ \E t \in SupNames : SupJoin(t)
    \/ SupReturn

SpecSup == InitSup /\ [][NextSup]_vars

(* ------------------- one wallet pool, two executors ------------------- *)
\* The engine with room for two executors that broadcast, started from one
\* chain state: AutoBuyService with every wallet MaxBal above the floor.
InitPool ==
    /\ service = "autobuy"
    /\ wallets = [p \in Feeds |->
                    [w \in Wallets |-> WalletContext(0, 0, SurplusBalance + MaxBal)]]
    /\ lock = [p \in Feeds |-> [w \in Wallets |-> "free"]]
    /\ feed = [f \in Feeds |-> IdleFeed]
    /\ delivered = [f \in Feeds |-> {}]
    /\ cache = {}
    /\ cacheLock = "free"
    /\ expired = {}
    /\ triggers = [h \in Hashes |-> {}]
    /\ pending = [p \in Feeds |-> EmptyBag]
    /\ exec = [p \in Feeds |-> [w \in Wallets |-> IdleExec]]
    /\ runs = MaxPoolRuns
    /\ exit = FALSE
    /\ joined = {}
    /\ discarded = {}
    /\ skipped = {}
    /\ provider_index = 0
    /\ fp = IdleProbe
    /\ got = [endpoint |-> NoEndpoint, calls |-> 0]
    /\ router = IdleRouter
    /\ calc = IdleCalc
    /\ codec = IdleCodec
    /\ gas = IdleGas
    /\ wss = IdleWs
    /\ sup = IdleSup
    /\ keys = IdleKeys
    /\ obs = IdleObs

SpecPool == InitPool /\ [][Next]_vars

(* ----------------------------- properties ----------------------------- *)
\* C1: when every wallet a pass visited could be claimed and the usable
\* balances cover the required amount, the jobs the pass dispatches sum
\* exactly to the required amount and no job exceeds the usable balance of its
\* wallet.  (A pass that stopped before visiting every wallet stopped because
\* the remainder reached zero.)
C1_AllocationExact ==
    \A f \in Feeds :
        LET st == feed[f]
        IN  ( /\ st.pc = "spawned"
              /\ st.busy = {}
              /\ st.todo # {} \/ SumOver(st.seen, DOMAIN st.seen) >= st.required )
            => /\ SumOver(st.configs, DOMAIN st.configs) = st.required
               /\ \A w \in DOMAIN st.configs : st.configs[w] <= st.seen[w]

\* A pass that committed one wallet in full and gave the residual to another.
C1_Witness ==
    \E f \in Feeds :
        /\ feed[f].pc = "spawned"
        /\ feed[f].busy = {}
        /\ feed[f].resid # NoWallet
        /\ Cardinality(DOMAIN feed[f].configs) = 2
        /\ SumOver(feed[f].configs, DOMAIN feed[f].configs) = feed[f].required

\* C2: while a fully committed job of a wallet waits for its executor, no
\* other job has been created for the same wallet.
C2_CommittedStaysClaimed ==
    \A p \in Feeds :
        \A j \in DOMAIN pending[p] :
            j.kind = "commit" =>
                /\ pending[p][j] = 1
                /\ \A k \in DOMAIN pending[p] : k.w = j.w => k = j

\* C3: a transaction hash whose cache entry has not lapsed starts at most one
\* trigger, whichever feed sees it first (stated for runs in which no feed
\* task has ended).
C3_OneTriggerPerHash ==
    \A h \in Hashes :
        (h \notin expired /\ \A f \in Feeds : feed[f].pc \notin {"failed", "panicked"})
        => Cardinality(triggers[h]) <= 1

\* C4: an executor that received a receipt with failure status returns with
\* both balances as they were and the nonce advanced by exactly one.
C4_RevertedBumpsNonceOnly ==
    \A p \in Feeds, w \in Wallets :
        ( /\ exec[p][w].pc = "returned"
          /\ exec[p][w].outcome \in {"reverted", "reverted_notify_panic"} )
        => wallets[p][w] = [exec[p][w].pre EXCEPT !.nonce = @ + 1]

\* C5: a running executor holds the wallet lock and has not released it; an
\* executor that ended, whatever its outcome, has released it exactly once and
\* the wallet can be claimed again.
C5_LockReleasedOnce ==
    \A p \in Feeds, w \in Wallets :
        /\ exec[p][w].pc \in {"submitted", "recovery"} =>
              (lock[p][w] = "exec" /\ exec[p][w].rel = 0)
        /\ exec[p][w].pc = "returned" =>
              (exec[p][w].rel = 1 /\ TryWrite(lock[p][w]))

\* An executor that unwound from a panic after a confirmed receipt.
C5_Witness ==
    \E p \in Feeds, w \in Wallets :
        /\ exec[p][w].pc = "returned"
        /\ exec[p][w].outcome = "confirmed_notify_panic"
        /\ exec[p][w].rel = 1
        /\ lock[p][w] = "free"

\* C6: an executor whose receipt wait timed out has queried the chain and
\* returns with WalletState equal to the fetched values.
C6_TimeoutResyncs ==
    \A p \in Feeds, w \in Wallets :
        ( /\ exec[p][w].pc = "returned"
          /\ exec[p][w].outcome = "timeout" )
        => /\ exec[p][w].fetched \in FetchedStates
           /\ wallets[p][w] = exec[p][w].fetched

\* C7: after a submission error and a successful resync the executor returns
\* with WalletState equal to exactly the fetched values.
C7_ResyncOverwrites ==
    \A p \in Feeds, w \in Wallets :
        ( /\ exec[p][w].pc = "returned"
          /\ exec[p][w].outcome = "resynced" )
        => /\ exec[p][w].fetched \in FetchedStates
           /\ wallets[p][w] = exec[p][w].fetched

\* A resync that replaced a WalletState different from the chain state.
C7_Witness ==
    \E p \in Feeds, w \in Wallets :
        /\ exec[p][w].pc = "returned"
        /\ exec[p][w].outcome = "resynced"
        /\ exec[p][w].pre # exec[p][w].fetched
        /\ wallets[p][w] = exec[p][w].fetched

\* C8: a pass that ends with a remainder and no wallet to take it has
\* committed every claimed wallet with a positive usable balance in full,
\* assigned the remainder to nobody, sent the shortfall notification and
\* dispatched the committed jobs.
C8_ShortfallReported ==
    \A f \in Feeds :
        LET st == feed[f]
        IN  ( /\ st.pc \in {"spawned", "panicked"}
              /\ st.total > 0
              /\ st.chosen = {} )
            => /\ DOMAIN st.configs = {w \in DOMAIN st.seen : st.seen[w] > 0}
               /\ \A w \in DOMAIN st.configs : st.configs[w] = st.seen[w]
               /\ st.resid = NoWallet
               /\ SumOver(st.configs, DOMAIN st.configs) + st.total = st.required
               /\ st.notified
               /\ st.dispatched

\* C9: a pass in its wallet loop can always take its next step, visits no
\* wallet twice, and gives a wallet whose lock was held neither a job nor the
\* residual.
C9_PassNeverWaits ==
    \A f \in Feeds :
        LET st == feed[f]
        IN  /\ st.pc = "alloc" =>
                 \/ ENABLED (\E w \in Wallets : AllocVisit(f, w))
                 \/ ENABLED (\E w \in Wallets \cup {NoWallet}, n \in BOOLEAN :
                               AllocFinish(f, w, n))
            /\ st.todo \cap (st.busy \cup DOMAIN st.seen) = {}
            /\ st.busy \cap (DOMAIN st.seen \cup DOMAIN st.configs \cup st.chosen) = {}
            /\ st.resid \notin st.busy

\* A pass that returned its jobs while an executor still held a wallet it
\* had skipped.
C9_Witness ==
    \E f \in Feeds, w \in Wallets :
        /\ feed[f].pc = "spawned"
        /\ w \in feed[f].busy
        /\ lock[PoolOf(f)][w] = "exec"
        /\ DOMAIN feed[f].configs # {}

\* C10: the endpoint that answered a probing pass is the first that did not
\* fail in it, the shared index names the endpoint that answered last, and a
\* get_provider call returns that endpoint.
C10_IndexFollowsProbe ==
    [][ /\ fp'.answered => fp'.failed = 0..(fp'.responded - 1)
        /\ fp'.responded # NoEndpoint => provider_index' = fp'.responded
        /\ (got'.calls # got.calls /\ fp.responded # NoEndpoint) =>
              got'.endpoint = fp.responded ]_vars

\* Endpoints 0 and 1 failed, endpoint 2 answered, and a later call got it.
C10_Witness ==
    /\ fp.answered
    /\ fp.failed = {0, 1}
    /\ fp.responded = 2
    /\ provider_index = 2
    /\ got.endpoint = 2

\* C11: with the exit flag wired in, once a full probing pass found every
\* endpoint down the exit flag is set and the task probes no further: it is
\* at the top of its loop, where the set flag makes it return Err, or has
\* returned.
C11_ExhaustionSetsExit ==
    (fp.wired /\ fp.exhausted) =>
        /\ exit
        /\ fp.pc \in {"top", "failed"}
        /\ fp.pc = "top" => ENABLED ProbeLoop(TRUE)

\* The task has returned Err after a pass in which every endpoint was down.
C11_Witness ==
    /\ fp.wired
    /\ fp.exhausted
    /\ fp.failed = Providers
    /\ fp.pc = "failed"
    /\ exit

\* C12: with no exit flag wired in, once a full probing pass found every
\* endpoint down the task starts no further pass.
C12_ExhaustionFailsUnwired ==
    (~fp.wired /\ fp.exhausted) => fp.pc \in {"top", "failed"}

\* C13: once the exit flag is set, a feed that is at its receive (polling
\* for a confirmed log, or waiting for the next pending transaction) is able
\* to observe the flag and return Err without a further item arriving.
C13_ExitObservedAtReceive ==
    \A f \in Feeds :
        (exit /\ feed[f].pc \in {"loop", "recv"}) => ENABLED FeedExit(f)

C15_QuoteFailureKeepsFeed ==
    \A f \in Feeds : ~(feed[f].pc = "failed" /\ feed[f].why = "quote")

\* C16: a notification failure aborts nothing: a trigger whose notification
\* failed has had its jobs dispatched, and an executor whose notification
\* failed after a success receipt leaves the traded balance reduced by the
\* job amount and the nonce advanced by one.
C16_NotifyFailureHarmless ==
    /\ \A f \in Feeds : feed[f].pc = "panicked" => feed[f].dispatched
    /\ \A p \in Feeds, w \in Wallets :
          ( /\ exec[p][w].pc = "returned"
            /\ exec[p][w].outcome = "confirmed_notify_panic" )
          => wallets[p][w] =
                BumpNonce(ApplyConfirmed(service, exec[p][w].pre, exec[p][w].amt))

\* C19: an executor that received a receipt with success status returns with
\* the traded balance reduced by exactly the job amount, the other balance as
\* it was, the nonce advanced by exactly one, and the wallet lock released.
C19_SuccessApplied ==
    \A p \in Feeds, w \in Wallets :
        LET pre == exec[p][w].pre
            amt == exec[p][w].amt
        IN  ( /\ exec[p][w].pc = "returned"
              /\ exec[p][w].outcome \in
                    {"confirmed", "confirmed_notify_panic", "underflow_panic"} )
            => /\ wallets[p][w] =
                    IF service = "sell"
                    THEN [pre EXCEPT !.token_balance = @ - amt, !.nonce = @ + 1]
                    ELSE [pre EXCEPT !.eth_balance = @ - amt, !.nonce = @ + 1]
               /\ TryWrite(lock[p][w])

\* C20: a WalletState entry changes only in a step of the executor that holds
\* the entry's lock, and only when that executor ends with a receipt or a
\* completed resync; no step of a feed or of the allocation changes one.
C20_OnlyExecutorMutates ==
    [][\A p \in Feeds, w \in Wallets :
          wallets'[p][w] # wallets[p][w] =>
             /\ lock[p][w] = "exec"
             /\ exec[p][w].pc \in {"submitted", "recovery"}
             /\ exec'[p][w].outcome \in
                   {"confirmed", "confirmed_notify_panic", "reverted", "resynced"}
             /\ feed' = feed]_vars

\* A pass has dispatched its jobs and an executor of its pool has changed
\* the wallet it held.
C20_Witness ==
    \E p \in Feeds, w \in Wallets :
        /\ feed[p].dispatched
        /\ exec[p][w].pc = "returned"
        /\ exec[p][w].outcome \in {"confirmed", "reverted", "resynced"}
        /\ wallets[p][w] # exec[p][w].pre

\* C17: no transaction whose minimum amount out was to come from a quote is
\* built or broadcast when the quoting call for its pool failed.
C17_FailedQuoteNoTrade ==
    (router.pc \in {"built", "sent"} /\ router.tx.apply) =>
        router.quoted[router.tx.pool] # QuoteReverted

\* C18: a pair resolution that returned Ok returned a pool other than the
\* zero address.
C18_ResolvedNeverZero ==
    router.pc \in {"resolved", "built", "skipped", "sent"} =>
        router.resolved # ZERO_ADDRESS

\* C21: a slippage-adjusted quote computed with a slippage below one hundred
\* percent is at most the venue's amount out, and is equal to it when the
\* slippage is zero.
C21_SlippageNeverRaises ==
    calc.pc = "done" =>
        /\ calc.min <= calc.amount_out
        /\ calc.slippage = 0 => calc.min = calc.amount_out

\* A quote reduced by a positive slippage share that leaves a positive
\* minimum.
C21_Witness ==
    /\ calc.pc = "done"
    /\ calc.slippage > 0
    /\ 0 < calc.min
    /\ calc.min < calc.amount_out

\* C22: extract_path_from_v3 applied to a packed path returns the addresses
\* of the path in order; with is_reverse it returns them in reverse order,
\* and reversing that result gives the original order.
C22_PathRoundTrip ==
    codec.pc = "done" =>
        LET original == [i \in 1..Len(codec.path) |-> AddrOf(codec.path[i])]
        IN  IF codec.is_reverse
            THEN codec.out = Reverse(original) /\ Reverse(codec.out) = original
            ELSE codec.out = original

\* A reversed three-token path with differing ends has been decoded.
C22_Witness ==
    /\ codec.pc = "done"
    /\ codec.is_reverse
    /\ Len(codec.path) = MaxPathLen
    /\ Len(codec.out) = MaxPathLen
    /\ codec.path[1] # codec.path[MaxPathLen]

\* C23: universal_decode of a swap command recovers the amount of the swap
\* (as amount_in for exact-in, as amount_out for exact-out) and its token
\* path in swap order, and for an exact-in command the same amount and the
\* same tokens as decoding the classic call for that swap.
C23_UniversalMatchesClassic ==
    (codec.pc = "decoded" /\ codec.command \in SwapCommands) =>
        /\ codec.info.path = AddressesOf(codec.path)
        /\ IF codec.command \in ExactIn
           THEN /\ codec.info.amount_in = codec.amount
                /\ codec.info.amount_in = codec.classic.amount_in
                /\ \A i \in 1..Len(codec.classic.path) :
                      codec.info.path[i] = codec.classic.path[i]
           ELSE codec.info.amount_out = codec.amount

\* An exact-out swap of two different tokens on a concentrated-liquidity
\* venue has been decoded.
C23_Witness ==
    /\ codec.pc = "decoded"
    /\ codec.command = V3_SWAP_EXACT_OUT
    /\ codec.path[1] # codec.path[2]
    /\ Len(codec.info.path) = 2

\* C24: a pending transaction whose hop does not involve the tracked token,
\* or whose value is below the configured threshold, is not in the dedupe
\* cache and has caused no trigger of the pending-transaction feed.
C24_DiscardedLeavesNoTrace ==
    \A h \in discarded :
        /\ h \in delivered["mempool"]
        /\ h \notin cache
        /\ "mempool" \notin triggers[h]

\* SellService dropped a transaction below the threshold and afterwards
\* processed a trigger for another one.
C24_Witness ==
    \E h, g \in Hashes :
        /\ service = "sell"
        /\ h \in discarded
        /\ g \notin discarded
        /\ "mempool" \in triggers[g]
        /\ g \in cache

\* C25: when a fetch of the gas price oracle completes, a malformed response
\* leaves the shared cell as it was and the loop is back at its top, any
\* other error ends the task with that error and the cell as it was, and a
\* successful fetch leaves the fetched value in the cell with the loop back
\* at its top.  No other step of the oracle changes the cell.
C25_GasFetchOutcomes ==
    [][ /\ gas.pc = "fetch" /\ gas'.pc # "fetch" =>
            \/ /\ gas'.last = "malformed"
               /\ gas'.gas_price = gas.gas_price
               /\ gas'.pc = "top"
            \/ /\ gas'.last = "err"
               /\ gas'.gas_price = gas.gas_price
               /\ gas'.pc = "failed"
               /\ gas'.why = "rpc"
            \/ /\ gas'.last = "ok"
               /\ gas'.gas_price = gas'.fetched
               /\ gas'.pc = "top"
        /\ gas.pc # "fetch" => gas'.gas_price = gas.gas_price ]_vars

\* The oracle swallowed a malformed response, later replaced the cell by a
\* different value, and ended on another error.
C25_Witness ==
    /\ gas.seen = {"ok", "malformed", "err"}
    /\ gas.pc = "failed"
    /\ gas.why = "rpc"
    /\ gas.gas_price = MaxGasPrice

\* C26: no outcome of an allocation or of a job ends a feed: a feed that has
\* returned Err or panicked did so with no remainder left unallocated, that
\* is, not at the point where no wallet was found for the remainder.
C26_JobOutcomesKeepService ==
    \A f \in Feeds :
        feed[f].pc \in {"failed", "panicked"} => feed[f].total = 0

\* C27: when the confirmed-log feed makes its check for a hash that is in
\* the dedupe cache with an entry that has not expired, the feed skips the
\* event: it stays at the top of its loop, holds no cache guard, and no
\* trigger is recorded.
C27_CachedEventSkipped ==
    [][ \A h \in Hashes :
          ( /\ h \in delivered'["event"] \ delivered["event"]
            /\ h \in cache
            /\ h \in cache' )
          => /\ feed'["event"] = feed["event"]
             /\ feed'["event"].pc = "loop"
             /\ cacheLock' = "free"
             /\ triggers' = triggers ]_vars

\* The pending-transaction feed claimed a hash and triggered on it; the
\* confirmed-log feed then received the same hash and is back at its loop
\* without a trigger of its own.
C27_Witness ==
    \E h \in Hashes :
        /\ "mempool" \in triggers[h]
        /\ h \in cache
        /\ h \in skipped
        /\ "event" \notin triggers[h]
        /\ feed["event"].pc = "loop"

\* C28: an executor that has submitted its transaction can always leave the
\* receipt wait without a receipt, by its timeout, and then ends with the
\* wallet lock released: the wait is bounded whatever the chain does.
C28_ReceiptWaitBounded ==
    \A p \in Feeds, w \in Wallets :
        exec[p][w].pc = "submitted" =>
            ENABLED ExecReceipt(p, w, "timeout", TRUE, FALSE)

\* C29: the step in which an executor returns because building its
\* transaction failed goes from the claim of the wallet straight to the
\* return (send_raw_transaction is not reached), leaves every WalletState
\* entry as it was, releases the wallet lock, ends no feed and leaves the
\* exit flag alone, and every job of another wallet stays pending as before.
C29_BuildFailureSkipsWallet ==
    [][ \A p \in Feeds, w \in Wallets :
          ( /\ exec[p][w].pc = "idle"
            /\ exec'[p][w].pc = "returned"
            /\ exec'[p][w].outcome = "build_err" )
          => /\ wallets' = wallets
             /\ TryWrite(lock'[p][w])
             /\ exec'[p][w].rel = 1
             /\ feed' = feed
             /\ exit' = exit
             /\ \A job \in BagToSet(pending[p]) :
                   job.w # w => CopiesIn(job, pending'[p]) = CopiesIn(job, pending[p])
      ]_vars

\* One job of a trigger failed to build and returned; a job of the same pool
\* for another wallet went on to broadcast its transaction.
C29_Witness ==
    \E p \in Feeds, w, x \in Wallets :
        /\ w # x
        /\ exec[p][w].pc = "returned"
        /\ exec[p][w].outcome = "build_err"
        /\ wallets[p][w] = exec[p][w].pre
        /\ exec[p][x].pc = "submitted"

\* C30: the signer an executor loads for a WalletState entry has the address
\* stored in that entry, in each of the three services.
C30_SignerMatchesWalletState ==
    keys.pc = "loaded" => keys.signer = keys.address

\* C31: a pending swap that sells a stated amount of the tracked token
\* (classic, concentrated-liquidity or universal exact-in encoding) and is
\* taken for a sell is observed with the WETH output quoted for that amount.
C31_ObservedValueIsQuote ==
    ( /\ obs.pc = "observed"
      /\ obs.encoding = "universal" => obs.command \in ExactIn )
    => /\ obs.sell_token_amount = obs.amount
       /\ obs.transaction_value = obs.quote

\* C32: an executor that received a success receipt found the job amount
\* within the tracked balance (the subtraction did not underflow), and a buy
\* leaves the tracked native balance at or above the reserve floor.
C32_ConfirmedWithinBalance ==
    \A p \in Feeds, w \in Wallets :
        /\ exec[p][w].outcome # "underflow_panic"
        /\ ( /\ exec[p][w].pc = "returned"
             /\ exec[p][w].outcome \in {"confirmed", "confirmed_notify_panic"} )
           => /\ exec[p][w].amt <= Traded(service, exec[p][w].pre)
              /\ service # "sell" => wallets[p][w].eth_balance >= SurplusBalance

\* C33: the two feeds share one WalletState and one lock per wallet address:
\* no two executors are in flight for the same address at the same time, and
\* so no two transactions are built for one address with the same nonce.
C33_OneExecutorPerAddress ==
    \A w \in Wallets : \A p, q \in Feeds :
        p # q =>
            ~ /\ exec[p][w].pc \in {"submitted", "recovery"}
              /\ exec[q][w].pc \in {"submitted", "recovery"}

\* C34: a recovery in which one of the three queries failed leaves the
\* WalletState entry as it was; a recovery in which all three succeeded
\* replaces all three fields by the values read, in one step taken while the
\* executor holds the entry's lock.
C34_ResyncAllOrNothing ==
    [][\A p \in Feeds, w \in Wallets :
          ( /\ exec[p][w].pc = "recovery"
            /\ exec'[p][w].pc = "returned" )
          => LET res == exec'[p][w].fetched
             IN  IF \E q \in Queries : res[q] = QueryErr
                 THEN wallets'[p][w] = wallets[p][w]
                 ELSE /\ \A q \in Queries : wallets'[p][w][q] = res[q]
                      /\ lock[p][w] = "exec"]_vars

\* A recovery whose balance queries succeeded and whose nonce query failed has
\* returned, and the entry still holds the values it held before, which differ
\* from the balances read.
C34_Witness ==
    \E p \in Feeds, w \in Wallets :
        /\ exec[p][w].pc = "returned"
        /\ exec[p][w].outcome = "resync_failed"
        /\ exec[p][w].fetched.nonce = QueryErr
        /\ exec[p][w].fetched.token_balance # QueryErr
        /\ exec[p][w].fetched.eth_balance # QueryErr
        /\ wallets[p][w] = exec[p][w].pre
        /\ wallets[p][w].eth_balance # exec[p][w].fetched.eth_balance

\* C35: the mutex of the dedupe cache is free whenever a feed is past its
\* membership check or insert: while it awaits an RPC result, sends a
\* notification or processes a trigger.
C35_CacheLockOnlyForCheck ==
    \A f \in Feeds :
        feed[f].pc \in {"fetch", "alloc", "spawned"} => cacheLock = "free"

\* C36: within one lifespan of the cache entry of a transaction hash, the
\* forwarding tasks send at most one log of that hash to the receiver,
\* however their steps interleave.
C36_ForwardedAtMostOnce == \A h \in Hashes : wss.sent[h] <= 1

\* Every provider task has handled a log of the same hash, none is in its
\* loop body, the entry has not lapsed and the receiver got the log once.
C36_Witness ==
    \E h \in Hashes :
        /\ \A t \in WsTasks : h \in wss.handled[t] /\ wss.pc[t] = "next"
        /\ h \in wss.cache
        /\ wss.sent[h] = 1

\* C37: the shared provider index is a position of the endpoint list after
\* initialisation and after every step of the health check, so that a
\* get_provider call passes its range test and returns an endpoint.
C37_IndexInRange ==
    /\ provider_index \in Providers
    /\ got.calls < MaxCalls => ENABLED GetProvider

\* A pass in which only the last endpoint of the list answered has stored its
\* position, and every get_provider call allowed has returned that endpoint.
C37_Witness ==
    /\ fp.answered
    /\ provider_index = NumProviders - 1
    /\ got.calls = MaxCalls
    /\ got.endpoint = ProviderAt(NumProviders - 1)

\* C38: an executor of BuyService starts a submission only from a tracked
\* native balance above the reserve floor; from a balance at or below it the
\* iteration returns without submitting and its wallet's loop ends; and when
\* a buy has confirmed with success the tracked native balance is the floor.
C38_FloorStopsBuying ==
    [][\A p \in Feeds, w \in Wallets :
          /\ ( /\ exec[p][w].pc = "idle"
               /\ exec'[p][w].pc # "idle"
               /\ exec'[p][w].kind = "buyer"
               /\ wallets[p][w].eth_balance <= SurplusBalance )
             => /\ exec'[p][w].pc = "returned"
                /\ exec'[p][w].outcome \in {"load_err", "below_floor"}
                /\ \A job \in DOMAIN pending'[p] : job.w # w
          /\ ( /\ exec[p][w].pc = "submitted"
               /\ exec[p][w].kind = "buyer"
               /\ exec'[p][w].pc = "returned"
               /\ exec'[p][w].outcome \in {"confirmed", "confirmed_notify_panic"} )
             => wallets'[p][w].eth_balance = SurplusBalance]_vars

\* A wallet of BuyService whose buy confirmed (its nonce moved on and its
\* balance is the floor) ran its next iteration, which returned at the floor
\* test and left no further job for the wallet.
C38_Witness ==
    \E p \in Feeds, w \in Wallets :
        /\ service = "buyer"
        /\ runs < MaxRuns
        /\ exec[p][w].pc = "returned"
        /\ exec[p][w].outcome = "below_floor"
        /\ wallets[p][w].eth_balance = SurplusBalance
        /\ wallets[p][w].nonce > 0
        /\ \A job \in DOMAIN pending[p] : job.w # w

\* C39: once every worker task of a supervisor has returned Ok and has been
\* joined, the supervisor is on its way out without any task failing: it can
\* return, or join a finished task, or a task still running finds the exit
\* flag set.
C39_WorkersDoneProgramReturns ==
    ( /\ sup.pc = "joining"
      /\ \A t \in SupWorkers(sup.bot) : sup.st[t] = "ok" /\ t \in sup.joined )
    => \/ ENABLED SupReturn
       \/ \E t \in SupNames : ENABLED SupJoin(t)
       \/ \E t \in SupNames : ENABLED SupPeriodicExit(t)

====
